---- MODULE Spec2Model ----
(***************************************************************************)
(* The C2 type lattice of src/hotspot/share/opto/type.cpp: the hash-consing *)
(* type dictionary (Type::hashcons), the duals (xdual) and the meets        *)
(* (meet_helper, xmeet of every modelled family) with the debug verifier    *)
(* (check_symmetrical).                                                     *)
(*                                                                          *)
(* A type is a record with a field base (the TYPES tag) and the fields of   *)
(* its C++ class.  Canonical (hash-consed) types are compared by pointer in *)
(* the code; the dictionary specification keeps the addresses, the meet     *)
(* specification works on canonical types, where the pointer and the        *)
(* structure determine each other.                                          *)
(*                                                                          *)
(* Modelled families: the plain Type bases, TypeF, TypeD, TypeInt, TypeLong,*)
(* TypePtr (AnyPtr), TypeRawPtr, TypeOopPtr, TypeInstPtr.  jint and jlong   *)
(* are both scaled to IntBits bits.                                         *)
(***************************************************************************)
EXTENDS Integers, Sequences, FiniteSets, TLC

VARIABLES
    heap,       \* dictionary spec: address -> [t: the Type object, dual: address of _dual, 0 = nullptr]
    tdic,       \* dictionary spec: addresses held by the type dictionary
    last,       \* dictionary spec: what the last hashcons call did
    fault,      \* dictionary spec: "none", or the assertion that stopped the VM
    recv,       \* meet spec: receiver of the call (this)
    arg,        \* meet spec: argument of the call (t or kills)
    result,     \* meet spec: the call made and what it returned
    proto,      \* integer spec: the constraints handed to make_or_top
    made,       \* integer spec: what make_or_top returned
    query,      \* integer spec: the last contains(v) or eq call and its answer
    type_verify,        \* verifier spec: Compile::_type_verify (depth and cache), or nullptr
    frames,             \* verifier spec: the meet_helper activations on the stack
    shared_type_dict,   \* thread spec: Type::_shared_type_dict, or nullptr
    threads,            \* thread spec: what each thread is doing, and its Compile
    shared_protection_domains,  \* CDS spec: CDSProtectionDomain::_shared_protection_domains
    callers             \* CDS spec: each thread's call of get_shared_protection_domain

vars == <<heap, tdic, last, fault, recv, arg, result, proto, made, query,
          type_verify, frames, shared_type_dict, threads,
          shared_protection_domains, callers>>

dictVars == <<heap, tdic, last, fault>>
meetVars == <<recv, arg, result>>
intVars == <<proto, made, query>>
verifyVars == <<type_verify, frames>>
threadVars == <<shared_type_dict, threads>>
cdsVars == <<shared_protection_domains, callers>>

(***************************************************************************)
(* Bounds of the model.                                                    *)
(***************************************************************************)
\* Width in bits of the scaled jint / jlong.
IntBits == 4
\* Number of Type objects one run of the dictionary specification allocates.
MaxObjs == 6

(***************************************************************************)
(* Values shared by all families.                                          *)
(***************************************************************************)
\* nullptr where a Type* is expected (no speculative part, no result yet).
NULL == [base |-> "nullptr"]

\* fatal(...), ShouldNotReachHere() and failed assertions end the VM.
fatal(msg) == [base |-> "fatal", msg |-> msg]

is_fatal(t) == t.base = "fatal"

\* No verifier exists and no meet is running (the specifications that do not
\* step through the verifier).
VerifyIdle == type_verify = NULL /\ frames = <<>>

\* No thread is modelled (the specifications of one compilation).
ThreadsIdle == shared_type_dict = NULL /\ threads = <<>>
CdsIdle == shared_protection_domains = <<>> /\ callers = <<>>

\* Mutant of typerr: the error is not raised and the caller's
\* "return Type::BOTTOM" after the call runs.
typerr_returns(this, t) == [base |-> "Bottom"]

\* Type::typerr: dumps both types and calls ShouldNotReachHere().
typerr(this, t) == fatal("ShouldNotReachHere")

Min2(x, y) == IF x < y THEN x ELSE y

Max2(x, y) == IF x > y THEN x ELSE y

SetMin(S) == CHOOSE x \in S : \A y \in S : x <= y

SetMax(S) == CHOOSE x \in S : \A y \in S : x >= y

\* Type::make(enum TYPES t): a plain Type of that base.
Type_make(b) == [base |-> b]

Type_CONTROL == Type_make("Control")
Type_TOP == Type_make("Top")
Type_BOTTOM == Type_make("Bottom")
Type_HALF == Type_make("Half")
Type_ABIO == Type_make("Abio")
Type_RETURN_ADDRESS == Type_make("Return_Address")
Type_MEMORY == Type_make("Memory")
Type_HALF_FLOAT == Type_make("HalfFloatBot")
Type_FLOAT == Type_make("FloatBot")
Type_DOUBLE == Type_make("DoubleBot")

\* The bases whose objects are plain Type (class Type itself).
PlainBases == {"Control", "Top", "Half", "Abio", "Return_Address", "Memory",
               "HalfFloatTop", "HalfFloatBot", "FloatTop", "FloatBot",
               "DoubleTop", "DoubleBot", "Bottom"}

\* _type_info[base].dual_type for the plain bases.
dual_type(b) ==
    CASE b = "Top" -> "Bottom"
      [] b = "Bottom" -> "Top"
      [] b = "HalfFloatTop" -> "HalfFloatBot"
      [] b = "HalfFloatBot" -> "HalfFloatTop"
      [] b = "FloatTop" -> "FloatBot"
      [] b = "FloatBot" -> "FloatTop"
      [] b = "DoubleTop" -> "DoubleBot"
      [] b = "DoubleBot" -> "DoubleTop"
      [] b \in {"Control", "Half", "Abio", "Return_Address", "Memory",
                "HalfFloatCon", "FloatCon", "DoubleCon"} -> b
      [] OTHER -> "Bad"

\* Type::xdual.
Type_xdual(this) ==
    IF dual_type(this.base) = "Bad"
    THEN fatal("implement with v-call")
    ELSE Type_make(dual_type(this.base))

RECURSIVE xmeet(_, _)
RECURSIVE meet_helper(_, _, _)

\* Type::xmeet: the receiver is a plain Type.
Type_xmeet(this, t) ==
    IF this = t THEN this
    ELSE IF this.base = "Top" THEN t
    ELSE IF this.base = "Bottom" THEN Type_BOTTOM
    ELSE CASE t.base \in {"HalfFloatCon", "FloatCon", "DoubleCon", "Int", "Long",
                          "OopPtr", "InstPtr", "MetadataPtr", "KlassPtr",
                          "InstKlassPtr", "AryKlassPtr", "AryPtr",
                          "NarrowOop", "NarrowKlass"} -> xmeet(t, this)
           [] t.base = "Bottom" -> t
           [] t.base \in {"HalfFloatTop", "HalfFloatBot"} ->
                IF t.base = "HalfFloatTop" /\ this.base = "HalfFloatTop" THEN this
                ELSE IF this.base \in {"HalfFloatBot", "HalfFloatTop"} THEN Type_HALF_FLOAT
                ELSE IF this.base \in {"FloatBot", "FloatTop"} THEN Type_BOTTOM
                ELSE IF this.base \in {"DoubleTop", "DoubleBot"} THEN Type_BOTTOM
                ELSE typerr(this, t)
           [] t.base \in {"FloatTop", "FloatBot"} ->
                IF t.base = "FloatTop" /\ this.base = "FloatTop" THEN this
                ELSE IF this.base \in {"FloatBot", "FloatTop"} THEN Type_FLOAT
                ELSE IF this.base \in {"HalfFloatTop", "HalfFloatBot"} THEN Type_BOTTOM
                ELSE IF this.base \in {"DoubleTop", "DoubleBot"} THEN Type_BOTTOM
                ELSE typerr(this, t)
           [] t.base \in {"DoubleTop", "DoubleBot"} ->
                IF t.base = "DoubleTop" /\ this.base = "DoubleTop" THEN this
                ELSE IF this.base \in {"DoubleBot", "DoubleTop"} THEN Type_DOUBLE
                ELSE IF this.base \in {"HalfFloatTop", "HalfFloatBot"} THEN Type_BOTTOM
                ELSE IF this.base \in {"FloatTop", "FloatBot"} THEN Type_BOTTOM
                ELSE typerr(this, t)
           [] t.base \in {"Control", "Abio", "Memory"} ->
                IF this.base = t.base THEN this ELSE typerr(this, t)
           [] t.base = "Top" -> this
           [] OTHER -> typerr(this, t)

(***************************************************************************)
(* TypeF and TypeD: float and double constants.  A constant is named by    *)
(* its value; jint_cast / jlong_cast give its bit pattern.                 *)
(***************************************************************************)
FloatValues == {"+0.0", "-0.0", "1.0"}

\* jint_cast(float): the IEEE-754 single bit pattern as a jint.
jint_cast(f) ==
    CASE f = "+0.0" -> 0
      [] f = "-0.0" -> -2147483647 - 1
      [] f = "1.0" -> 1065353216

\* jlong_cast(double): the bit pattern (high word; the low word is 0 for these values).
jlong_cast(d) ==
    CASE d = "+0.0" -> 0
      [] d = "-0.0" -> -2147483647 - 1
      [] d = "1.0" -> 1072693248

\* TypeF::make(float f), before hashcons.
TypeF_make(f) == [base |-> "FloatCon", f |-> f]

\* TypeD::make(double d), before hashcons.
TypeD_make(d) == [base |-> "DoubleCon", d |-> d]

PtrBases == {"AnyPtr", "RawPtr", "OopPtr", "InstPtr", "AryPtr", "MetadataPtr",
             "KlassPtr", "InstKlassPtr", "AryKlassPtr"}

\* Mutant of TypeF::xmeet: constants are compared as C++ floats, for which
\* +0.0 == -0.0.
TypeF_xmeet_numeric(this, t) ==
    IF this = t THEN this
    ELSE CASE t.base \in PtrBases \cup {"NarrowOop", "NarrowKlass", "Int", "Long",
                          "HalfFloatTop", "HalfFloatCon", "HalfFloatBot",
                          "DoubleTop", "DoubleCon", "DoubleBot", "Bottom"} -> Type_BOTTOM
           [] t.base = "FloatBot" -> t
           [] t.base = "FloatCon" ->
                IF {this.f, t.f} = {"+0.0", "-0.0"} THEN this
                ELSE IF this.f # t.f THEN Type_FLOAT ELSE this
           [] t.base \in {"Top", "FloatTop"} -> this
           [] OTHER -> typerr(this, t)

\* TypeF::xmeet.
TypeF_xmeet(this, t) ==
    IF this = t THEN this
    ELSE CASE t.base \in PtrBases \cup {"NarrowOop", "NarrowKlass", "Int", "Long",
                          "HalfFloatTop", "HalfFloatCon", "HalfFloatBot",
                          "DoubleTop", "DoubleCon", "DoubleBot", "Bottom"} -> Type_BOTTOM
           [] t.base = "FloatBot" -> t
           [] t.base = "FloatCon" ->
                IF jint_cast(this.f) # jint_cast(t.f) THEN Type_FLOAT ELSE this
           [] t.base \in {"Top", "FloatTop"} -> this
           [] OTHER -> typerr(this, t)

\* TypeF::xdual.
TypeF_xdual(this) == this

\* TypeF::eq.
TypeF_eq(this, t) == jint_cast(this.f) = jint_cast(t.f)

\* TypeD::xmeet.
TypeD_xmeet(this, t) ==
    IF this = t THEN this
    ELSE CASE t.base \in PtrBases \cup {"NarrowOop", "NarrowKlass", "Int", "Long",
                          "HalfFloatTop", "HalfFloatCon", "HalfFloatBot",
                          "FloatTop", "FloatCon", "FloatBot", "Bottom"} -> Type_BOTTOM
           [] t.base = "DoubleBot" -> t
           [] t.base = "DoubleCon" ->
                IF jlong_cast(this.d) # jlong_cast(t.d) THEN Type_DOUBLE ELSE this
           [] t.base \in {"Top", "DoubleTop"} -> this
           [] OTHER -> typerr(this, t)

\* TypeD::xdual.
TypeD_xdual(this) == this

\* TypeD::eq.
TypeD_eq(this, t) == jlong_cast(this.d) = jlong_cast(t.d)

(***************************************************************************)
(* TypeInt and TypeLong.  The constraint machinery of rangeinference.hpp    *)
(* (TypeIntPrototype, KnownBits, TypeIntHelper) is modelled from its        *)
(* contract.  Signed values are integers of IntBits bits, unsigned values   *)
(* and bit masks are naturals below 2^IntBits.                              *)
(***************************************************************************)
WidenMin == 0
WidenMax == 3
SMALL_TYPEINT_THRESHOLD == 3

min_jint == -(2 ^ (IntBits - 1))
max_jint == 2 ^ (IntBits - 1) - 1
max_juint == 2 ^ IntBits - 1

IntValues == min_jint .. max_jint

\* The conversion jint -> juint (juint u = i).
juint_of(i) == i % (2 ^ IntBits)

\* The conversion juint -> jint.
jint_of(u) == IF u > max_jint THEN u - 2 ^ IntBits ELSE u

RECURSIVE BitAnd(_, _)
\* x & y on naturals.
BitAnd(x, y) ==
    IF x = 0 \/ y = 0 THEN 0
    ELSE (x % 2) * (y % 2) + 2 * BitAnd(x \div 2, y \div 2)

RECURSIVE BitOr(_, _)
\* x | y on naturals.
BitOr(x, y) ==
    IF x = 0 THEN y
    ELSE IF y = 0 THEN x
    ELSE Max2(x % 2, y % 2) + 2 * BitOr(x \div 2, y \div 2)

\* ~x on IntBits bits.
BitNot(x) == max_juint - x

\* KnownBits::is_satisfied_by.
is_satisfied_by(zeros, ones, u) == BitAnd(u, zeros) = 0 /\ BitAnd(u, ones) = ones

\* The values a TypeIntPrototype {srange, urange, bits} allows.
proto_values(p) ==
    {i \in IntValues : /\ i >= p.lo /\ i <= p.hi
                       /\ juint_of(i) >= p.ulo /\ juint_of(i) <= p.uhi
                       /\ is_satisfied_by(p.zeros, p.ones, juint_of(i))}

\* The bits that are b (0 or 1) in every value of vs, as a mask.
common_bits(vs, b) ==
    LET known(k) == \A i \in vs : (juint_of(i) \div (2 ^ k)) % 2 = b
        RECURSIVE mask(_)
        mask(k) == IF k = IntBits THEN 0
                   ELSE (IF known(k) THEN 2 ^ k ELSE 0) + mask(k + 1)
    IN mask(0)

\* TypeIntPrototype::canonicalize_constraints: empty when no value satisfies the
\* three views, else the tightest bounds and bits of the allowed values.
canonicalize_constraints(p) ==
    LET vs == proto_values(p)
        us == {juint_of(i) : i \in vs}
    IN IF vs = {} THEN [empty |-> TRUE]
       ELSE [empty |-> FALSE,
             data |-> [lo |-> SetMin(vs), hi |-> SetMax(vs),
                       ulo |-> SetMin(us), uhi |-> SetMax(us),
                       zeros |-> common_bits(vs, 0), ones |-> common_bits(vs, 1)]]

\* TypeIntHelper::cardinality_from_bounds: the number of values between the
\* bounds, minus one (one interval, or two when the signed range wraps).
cardinality_from_bounds(p) ==
    IF jint_of(p.ulo) = p.lo THEN p.uhi - p.ulo
    ELSE (p.uhi - juint_of(p.lo)) + (juint_of(p.hi) - p.ulo) + 1

\* TypeIntPrototype::normalize_widen: small types (constants, booleans) get
\* WidenMin, the unconstrained type gets WidenMax.
normalize_widen(p, widen) ==
    IF cardinality_from_bounds(p) <= SMALL_TYPEINT_THRESHOLD THEN WidenMin
    ELSE IF p.lo = min_jint /\ p.hi = max_jint /\ p.ulo = 0 /\ p.uhi = max_juint
            /\ p.zeros = 0 /\ p.ones = 0 THEN WidenMax
    ELSE widen

\* new TypeInt(t, widen, dual) / new TypeLong(t, widen, dual); base is "Int" or "Long".
TypeInt_new(base, p, widen, dual) ==
    [base |-> base, lo |-> p.lo, hi |-> p.hi, ulo |-> p.ulo, uhi |-> p.uhi,
     zeros |-> p.zeros, ones |-> p.ones,
     widen |-> normalize_widen(p, widen), is_dual |-> dual]

\* Mutant of make_or_top: the empty case returns TOP for a dual and BOTTOM
\* for a primal type.
make_or_top_swapped(base, p, widen, dual) ==
    LET canonicalized_t == canonicalize_constraints(p)
    IN IF canonicalized_t.empty
       THEN (IF dual THEN Type_TOP ELSE Type_BOTTOM)
       ELSE TypeInt_new(base, canonicalized_t.data, widen, dual)

\* TypeInt::make_or_top(t, widen, dual) / TypeLong::make_or_top(t, widen, dual).
make_or_top(base, p, widen, dual) ==
    LET canonicalized_t == canonicalize_constraints(p)
    IN IF canonicalized_t.empty
       THEN (IF dual THEN Type_BOTTOM ELSE Type_TOP)
       ELSE TypeInt_new(base, canonicalized_t.data, widen, dual)

\* TypeInt::make(jint con) / TypeLong::make(jlong con).
TypeInt_make_con(base, con) ==
    LET ucon == juint_of(con)
    IN TypeInt_new(base, [lo |-> con, hi |-> con, ulo |-> ucon, uhi |-> ucon,
                          zeros |-> BitNot(ucon), ones |-> ucon], WidenMin, FALSE)

\* Mutant of TypeInt::make(lo, hi, widen): the bounds are not checked.
TypeInt_make_unchecked(base, lo, hi, widen) ==
    make_or_top(base, [lo |-> lo, hi |-> hi, ulo |-> 0, uhi |-> max_juint,
                       zeros |-> 0, ones |-> 0], widen, FALSE)

\* TypeInt::make(jint lo, jint hi, int widen) / TypeLong::make(lo, hi, widen).
TypeInt_make(base, lo, hi, widen) ==
    IF ~(lo <= hi) THEN fatal("must be legal bounds")
    ELSE make_or_top(base, [lo |-> lo, hi |-> hi, ulo |-> 0, uhi |-> max_juint,
                            zeros |-> 0, ones |-> 0], widen, FALSE)

\* The shared ranges of Type::Initialize_shared.  The model's int has IntBits
\* bits where jint has 32, so a byte has IntBits \div 4 bits and a char
\* IntBits \div 2, as 8 and 16 are to 32.
ByteBits == IntBits \div 4
CharBits == IntBits \div 2

\* TypeInt::BYTE = TypeInt::make(-128, 127, WidenMin).
TypeInt_BYTE == TypeInt_make("Int", -(2 ^ (ByteBits - 1)), 2 ^ (ByteBits - 1) - 1, WidenMin)

\* TypeInt::CHAR = TypeInt::make(0, 65535, WidenMin).
TypeInt_CHAR == TypeInt_make("Int", 0, 2 ^ CharBits - 1, WidenMin)

\* TypeInt::INT = TypeInt::make(min_jint, max_jint, WidenMax).
TypeInt_INT == TypeInt_make("Int", min_jint, max_jint, WidenMax)

\* Mutant of contains: the unsigned range is not consulted.
contains_without_unsigned(this, i) ==
    LET u == juint_of(i)
    IN i >= this.lo /\ i <= this.hi
       /\ is_satisfied_by(this.zeros, this.ones, u)

\* TypeInt::contains(jint i) / TypeLong::contains(jlong i).
contains(this, i) ==
    LET u == juint_of(i)
    IN i >= this.lo /\ i <= this.hi
       /\ u >= this.ulo /\ u <= this.uhi
       /\ is_satisfied_by(this.zeros, this.ones, u)

\* TypeInt::xdual / TypeLong::xdual.
TypeInt_xdual(this) == [this EXCEPT !.is_dual = ~this.is_dual]

\* TypeIntHelper::int_type_is_equal.
int_type_is_equal(t1, t2) ==
    /\ t1.lo = t2.lo /\ t1.hi = t2.hi /\ t1.ulo = t2.ulo /\ t1.uhi = t2.uhi
    /\ t1.zeros = t2.zeros /\ t1.ones = t2.ones

\* Mutant of TypeInt::eq: the widen counter is not compared.
TypeInt_eq_without_widen(this, t) ==
    int_type_is_equal(this, t) /\ this.is_dual = t.is_dual

\* TypeInt::eq / TypeLong::eq.
TypeInt_eq(this, t) ==
    int_type_is_equal(this, t) /\ this.widen = t.widen /\ this.is_dual = t.is_dual

\* TypeIntHelper::int_type_xmeet, called by TypeInt::xmeet and TypeLong::xmeet.
int_type_xmeet(i1, t2) ==
    IF i1 = t2 \/ t2.base = "Top" THEN i1
    ELSE CASE t2.base = i1.base ->
                IF i1.is_dual # t2.is_dual THEN fatal("must have the same duality")
                ELSE IF ~i1.is_dual
                THEN make_or_top(i1.base,
                         [lo |-> Min2(i1.lo, t2.lo), hi |-> Max2(i1.hi, t2.hi),
                          ulo |-> Min2(i1.ulo, t2.ulo), uhi |-> Max2(i1.uhi, t2.uhi),
                          zeros |-> BitAnd(i1.zeros, t2.zeros),
                          ones |-> BitAnd(i1.ones, t2.ones)],
                         Max2(i1.widen, t2.widen), FALSE)
                ELSE make_or_top(i1.base,
                         [lo |-> Max2(i1.lo, t2.lo), hi |-> Min2(i1.hi, t2.hi),
                          ulo |-> Max2(i1.ulo, t2.ulo), uhi |-> Min2(i1.uhi, t2.uhi),
                          zeros |-> BitOr(i1.zeros, t2.zeros),
                          ones |-> BitOr(i1.ones, t2.ones)],
                         Min2(i1.widen, t2.widen), TRUE)
           [] t2.base \in PtrBases \cup {"NarrowOop", "NarrowKlass", "Int", "Long",
                          "HalfFloatTop", "HalfFloatCon", "HalfFloatBot",
                          "FloatTop", "FloatCon", "FloatBot",
                          "DoubleTop", "DoubleCon", "DoubleBot", "Bottom"}
                /\ t2.base # i1.base -> Type_BOTTOM
           [] OTHER -> typerr(i1, t2)

\* Mutant of TypeInt::xmeet: two different ranges meet at the full range.
TypeInt_xmeet_full(this, t) ==
    IF t.base = this.base /\ t # this /\ ~this.is_dual /\ ~t.is_dual
    THEN TypeInt_make(this.base, min_jint, max_jint, WidenMax)
    ELSE int_type_xmeet(this, t)

\* TypeInt::xmeet / TypeLong::xmeet.
TypeInt_xmeet(this, t) == int_type_xmeet(this, t)

(***************************************************************************)
(* TypePtr: the pointer lattice shared by every pointer family, and the    *)
(* AnyPtr types.  The enums and sentinels are those of type.hpp.           *)
(***************************************************************************)
\* enum PTR, in declaration order.
PTR == <<"TopPTR", "AnyNull", "Constant", "Null", "NotNull", "BotPTR">>

\* The position of a PTR value in the enum.
ptr_index(p) == CHOOSE i \in 1..Len(PTR) : PTR[i] = p

\* Offset sentinels (enum OFFSET_SIGNALS).
OffsetTop == -2000000000
OffsetBot == -2000000001

\* Inline depth sentinels.
InlineDepthBottom == 2147483647
InlineDepthTop == -InlineDepthBottom

\* Mutant of ptr_meet: two constants are taken for different ones.
ptr_meet_constants_differ ==
    << <<"TopPTR",   "AnyNull",  "Constant", "Null",   "NotNull", "BotPTR">>,
       <<"AnyNull",  "AnyNull",  "Constant", "BotPTR", "NotNull", "BotPTR">>,
       <<"Constant", "Constant", "NotNull",  "BotPTR", "NotNull", "BotPTR">>,
       <<"Null",     "BotPTR",   "BotPTR",   "Null",   "BotPTR",  "BotPTR">>,
       <<"NotNull",  "NotNull",  "NotNull",  "BotPTR", "NotNull", "BotPTR">>,
       <<"BotPTR",   "BotPTR",   "BotPTR",   "BotPTR", "BotPTR",  "BotPTR">> >>

\* TypePtr::ptr_meet.
ptr_meet ==
    << <<"TopPTR",   "AnyNull",  "Constant", "Null",   "NotNull", "BotPTR">>,
       <<"AnyNull",  "AnyNull",  "Constant", "BotPTR", "NotNull", "BotPTR">>,
       <<"Constant", "Constant", "Constant", "BotPTR", "NotNull", "BotPTR">>,
       <<"Null",     "BotPTR",   "BotPTR",   "Null",   "BotPTR",  "BotPTR">>,
       <<"NotNull",  "NotNull",  "NotNull",  "BotPTR", "NotNull", "BotPTR">>,
       <<"BotPTR",   "BotPTR",   "BotPTR",   "BotPTR", "BotPTR",  "BotPTR">> >>

\* Mutant of ptr_dual: the entries of Constant and Null are exchanged.
ptr_dual_exchanged == <<"BotPTR", "NotNull", "Null", "Constant", "AnyNull", "TopPTR">>

\* TypePtr::ptr_dual.
ptr_dual == <<"BotPTR", "NotNull", "Constant", "Null", "AnyNull", "TopPTR">>

\* TypePtr::meet_ptr(in_ptr) of a receiver whose _ptr is this_ptr.
meet_ptr(this_ptr, in_ptr) == ptr_meet[ptr_index(in_ptr)][ptr_index(this_ptr)]

\* TypePtr::dual_ptr.
dual_ptr(this_ptr) == ptr_dual[ptr_index(this_ptr)]

\* TypePtr::above_centerline.
above_centerline(ptr) == ptr_index(ptr) <= ptr_index("AnyNull")

\* TypePtr::below_centerline.
below_centerline(ptr) == ptr_index(ptr) >= ptr_index("NotNull")

\* TypePtr::meet_offset.
meet_offset(this_offset, offset) ==
    IF this_offset = OffsetTop THEN offset
    ELSE IF offset = OffsetTop THEN this_offset
    ELSE IF this_offset # offset THEN OffsetBot
    ELSE this_offset

\* TypePtr::dual_offset.
dual_offset(this_offset) ==
    IF this_offset = OffsetTop THEN OffsetBot
    ELSE IF this_offset = OffsetBot THEN OffsetTop
    ELSE this_offset

\* TypePtr::dual_inline_depth.
dual_inline_depth(depth) == -depth

\* TypePtr::meet_inline_depth.
meet_inline_depth(this_depth, depth) == Max2(this_depth, depth)

\* Type::isa_ptr.
isa_ptr(t) == t.base \in PtrBases

\* Type::is_ptr: the cast asserts the base.
is_ptr(t) == IF is_fatal(t) \/ isa_ptr(t) THEN t ELSE fatal("Not a pointer type")

\* TypePtr::make(t, ptr, offset, speculative, inline_depth), before hashcons.
TypePtr_make(base, ptr, offset, speculative, inline_depth) ==
    IF is_fatal(speculative) THEN speculative
    ELSE [base |-> base, ptr |-> ptr, offset |-> offset,
          speculative |-> speculative, inline_depth |-> inline_depth]

TypePtr_NULL_PTR == TypePtr_make("AnyPtr", "Null", 0, NULL, InlineDepthBottom)
TypePtr_NOTNULL == TypePtr_make("AnyPtr", "NotNull", OffsetBot, NULL, InlineDepthBottom)
TypePtr_BOTTOM == TypePtr_make("AnyPtr", "BotPTR", OffsetBot, NULL, InlineDepthBottom)

RECURSIVE xdual(_)

\* Type::dual: the _dual that hashcons recorded for a canonical type.
dual(t) == xdual(t)

\* TypePtr::dual_speculative.
dual_speculative(this) ==
    IF this.speculative = NULL THEN NULL ELSE is_ptr(dual(this.speculative))

\* TypePtr::xmeet_speculative.
xmeet_speculative(this, other) ==
    LET this_has_spec == this.speculative # NULL
        other_has_spec == other.speculative # NULL
    IN IF ~this_has_spec /\ ~other_has_spec THEN NULL
       ELSE is_ptr(meet_helper(IF this_has_spec THEN this.speculative ELSE this,
                               IF other_has_spec THEN other.speculative ELSE other,
                               FALSE))

\* TypePtr::eq_speculative.
eq_speculative(this, other) ==
    IF this.speculative = NULL \/ other.speculative = NULL
    THEN this.speculative = other.speculative
    ELSE IF this.speculative.base # other.speculative.base THEN FALSE
    ELSE this.speculative = other.speculative

\* TypePtr::eq.
TypePtr_eq(this, a) ==
    /\ this.ptr = a.ptr /\ this.offset = a.offset
    /\ eq_speculative(this, a) /\ this.inline_depth = a.inline_depth

\* TypePtr::remove_speculative.
TypePtr_remove_speculative(this) ==
    IF this.speculative = NULL THEN this
    ELSE IF ~(this.inline_depth \in {InlineDepthTop, InlineDepthBottom})
    THEN fatal("non speculative type shouldn't have inline depth")
    ELSE TypePtr_make("AnyPtr", this.ptr, this.offset, NULL, this.inline_depth)

\* TypePtr::xdual.
TypePtr_xdual(this) ==
    TypePtr_make("AnyPtr", dual_ptr(this.ptr), dual_offset(this.offset),
                 dual_speculative(this), dual_inline_depth(this.inline_depth))

\* TypePtr::xmeet_helper: the receiver is an AnyPtr.
TypePtr_xmeet_helper(this, t) ==
    IF this = t THEN this
    ELSE CASE t.base \in {"Int", "Long", "HalfFloatTop", "HalfFloatCon", "HalfFloatBot",
                          "FloatTop", "FloatCon", "FloatBot",
                          "DoubleTop", "DoubleCon", "DoubleBot",
                          "NarrowOop", "NarrowKlass", "Bottom"} -> Type_BOTTOM
           [] t.base = "Top" -> this
           [] t.base = "AnyPtr" ->
                TypePtr_make("AnyPtr", meet_ptr(this.ptr, t.ptr),
                             meet_offset(this.offset, t.offset),
                             xmeet_speculative(this, t),
                             meet_inline_depth(this.inline_depth, t.inline_depth))
           [] t.base \in PtrBases \ {"AnyPtr"} -> xmeet(t, this)
           [] OTHER -> typerr(this, t)

(***************************************************************************)
(* TypeRawPtr.                                                             *)
(***************************************************************************)
\* new TypeRawPtr(ptr, bits): TypePtr(RawPtr, ptr, 0) and the constant address.
TypeRawPtr_new(ptr, bits) ==
    [base |-> "RawPtr", ptr |-> ptr, offset |-> 0, speculative |-> NULL,
     inline_depth |-> InlineDepthBottom, bits |-> bits]

\* TypeRawPtr::make(enum PTR ptr), before hashcons.
TypeRawPtr_make(ptr) ==
    IF ptr = "Constant" THEN fatal("what is the constant?")
    ELSE IF ptr = "Null" THEN fatal("Use TypePtr for null")
    ELSE TypeRawPtr_new(ptr, 0)

\* TypeRawPtr::make(address bits), before hashcons.
TypeRawPtr_make_bits(bits) ==
    IF bits = 0 THEN fatal("Use TypePtr for null")
    ELSE TypeRawPtr_new("Constant", bits)

TypeRawPtr_BOTTOM == TypeRawPtr_make("BotPTR")
TypeRawPtr_NOTNULL == TypeRawPtr_make("NotNull")

\* Mutant of TypeRawPtr::xmeet: two different constants meet at the receiver.
TypeRawPtr_xmeet_keeps_constant(this, t) ==
    IF this = t THEN this
    ELSE CASE t.base = "Bottom" -> t
           [] t.base = "Top" -> this
           [] t.base = "RawPtr" ->
                LET tptr == t.ptr
                    ptr == meet_ptr(this.ptr, tptr)
                IN IF ptr = "Constant"
                   THEN (IF tptr = "Constant" /\ this.ptr # "Constant" THEN t
                         ELSE IF this.ptr = "Constant" /\ tptr # "Constant" THEN this
                         ELSE this)
                   ELSE TypeRawPtr_make(ptr)
           [] t.base \in {"OopPtr", "InstPtr", "AryPtr", "MetadataPtr", "KlassPtr",
                          "InstKlassPtr", "AryKlassPtr"} -> TypePtr_BOTTOM
           [] t.base = "AnyPtr" ->
                CASE t.ptr = "TopPTR" -> this
                  [] t.ptr = "BotPTR" -> t
                  [] t.ptr = "Null" ->
                       IF this.ptr = "TopPTR" THEN t ELSE TypeRawPtr_BOTTOM
                  [] t.ptr = "NotNull" ->
                       TypePtr_make("AnyPtr", meet_ptr(this.ptr, "NotNull"),
                                    meet_offset(t.offset, 0), t.speculative,
                                    t.inline_depth)
                  [] t.ptr = "AnyNull" ->
                       IF this.ptr = "Constant" THEN this
                       ELSE TypeRawPtr_make(meet_ptr(this.ptr, "AnyNull"))
                  [] OTHER -> fatal("ShouldNotReachHere")
           [] OTHER -> typerr(this, t)

\* TypeRawPtr::xmeet.
TypeRawPtr_xmeet(this, t) ==
    IF this = t THEN this
    ELSE CASE t.base = "Bottom" -> t
           [] t.base = "Top" -> this
           [] t.base = "RawPtr" ->
                LET tptr == t.ptr
                    ptr == meet_ptr(this.ptr, tptr)
                IN IF ptr = "Constant"
                   THEN (IF tptr = "Constant" /\ this.ptr # "Constant" THEN t
                         ELSE IF this.ptr = "Constant" /\ tptr # "Constant" THEN this
                         ELSE TypeRawPtr_make("NotNull"))
                   ELSE TypeRawPtr_make(ptr)
           [] t.base \in {"OopPtr", "InstPtr", "AryPtr", "MetadataPtr", "KlassPtr",
                          "InstKlassPtr", "AryKlassPtr"} -> TypePtr_BOTTOM
           [] t.base = "AnyPtr" ->
                CASE t.ptr = "TopPTR" -> this
                  [] t.ptr = "BotPTR" -> t
                  [] t.ptr = "Null" ->
                       IF this.ptr = "TopPTR" THEN t ELSE TypeRawPtr_BOTTOM
                  [] t.ptr = "NotNull" ->
                       TypePtr_make("AnyPtr", meet_ptr(this.ptr, "NotNull"),
                                    meet_offset(t.offset, 0), t.speculative,
                                    t.inline_depth)
                  [] t.ptr = "AnyNull" ->
                       IF this.ptr = "Constant" THEN this
                       ELSE TypeRawPtr_make(meet_ptr(this.ptr, "AnyNull"))
                  [] OTHER -> fatal("ShouldNotReachHere")
           [] OTHER -> typerr(this, t)

\* TypeRawPtr::xdual.
TypeRawPtr_xdual(this) == TypeRawPtr_new(dual_ptr(this.ptr), this.bits)

\* TypeRawPtr::eq.
TypeRawPtr_eq(this, a) == this.bits = a.bits /\ TypePtr_eq(this, a)

(***************************************************************************)
(* The class hierarchy the compiler interface (ciKlass, ciInstanceKlass)   *)
(* answers for: java.lang.Object, A implements I, final B extends A        *)
(* implements J, C implements J, D extends A, and two classes U and V     *)
(* that are not loaded.  An interface is named by its address, I below J.  *)
(***************************************************************************)
Klasses == {"Object", "A", "B", "C", "D", "U"}

\* ciInstanceKlass::super.
klass_super(k) ==
    CASE k = "A" -> "Object"
      [] k = "B" -> "A"
      [] k = "C" -> "Object"
      [] k = "D" -> "A"
      [] OTHER -> "none"

\* ciKlass::is_loaded.
klass_is_loaded(k) == k \notin {"U", "V"}

\* ciInstanceKlass::is_final.
klass_is_final(k) == k = "B"

\* ciInstanceKlass::transitive_interfaces, sorted by address.
transitive_interfaces(k) ==
    CASE k \in {"A", "D"} -> <<1>>
      [] k = "B" -> <<1, 2>>
      [] k = "C" -> <<2>>
      [] OTHER -> <<>>

RECURSIVE klass_is_subtype_of(_, _)
\* ciKlass::is_subtype_of.
klass_is_subtype_of(k1, k2) ==
    IF k1 = k2 THEN TRUE
    ELSE IF klass_super(k1) = "none" THEN FALSE
    ELSE klass_is_subtype_of(klass_super(k1), k2)

RECURSIVE least_common_ancestor(_, _)
\* ciKlass::least_common_ancestor.
least_common_ancestor(k1, k2) ==
    IF klass_is_subtype_of(k2, k1) THEN k1
    ELSE least_common_ancestor(klass_super(k1), k2)

(***************************************************************************)
(* TypeInterfaces: a sorted, duplicate-free sequence of interfaces.        *)
(***************************************************************************)
\* TypeInterfaces::compare.
compare(k1, k2) == IF k1 < k2 THEN -1 ELSE IF k1 > k2 THEN 1 ELSE 0

RECURSIVE sort_interfaces(_)
\* _interfaces.sort(compare) of the constructor of TypeInterfaces: the order
\* an insertion sort leaves.
sort_interfaces(list) ==
    IF list = <<>> THEN <<>>
    ELSE LET insert(k, sorted) ==
                 LET before == SelectSeq(sorted, LAMBDA x : compare(x, k) <= 0)
                     after == SelectSeq(sorted, LAMBDA x : compare(x, k) > 0)
                 IN before \o <<k>> \o after
         IN insert(Head(list), sort_interfaces(Tail(list)))

\* TypeInterfaces::make(GrowableArray*), before hashcons.
TypeInterfaces_make(interfaces) == sort_interfaces(interfaces)

\* TypeInterfaces::verify: "ok", or the assertion that fails.
TypeInterfaces_verify(this) ==
    IF \E i \in 2..Len(this) : ~(compare(this[i], this[i - 1]) > 0)
    THEN fatal("should be ordered")
    ELSE [base |-> "ok"]

\* GrowableArray::contains on the list of a TypeInterfaces.
interfaces_contains(this, k) == \E i \in 1..Len(this) : this[i] = k

RECURSIVE union_merge(_, _, _, _)
\* The loop of TypeInterfaces::union_with from positions i and j.
union_merge(a, b, i, j) ==
    IF ~(i <= Len(a) \/ j <= Len(b)) THEN <<>>
    ELSE IF i <= Len(a) /\ (j > Len(b) \/ compare(a[i], b[j]) < 0)
    THEN <<a[i]>> \o union_merge(a, b, i + 1, j)
    ELSE IF j <= Len(b) /\ (i > Len(a) \/ compare(b[j], a[i]) < 0)
    THEN <<b[j]>> \o union_merge(a, b, i, j + 1)
    ELSE <<a[i]>> \o union_merge(a, b, i + 1, j + 1)

\* Mutant of union_with: the two lists are appended and sorted.
union_with_appended(this, other) == TypeInterfaces_make(this \o other)

\* TypeInterfaces::union_with.
union_with(this, other) == TypeInterfaces_make(union_merge(this, other, 1, 1))

\* The ASSERT part of TypeInterfaces::union_with on its result.
union_with_verify(this, other, r) ==
    IF is_fatal(TypeInterfaces_verify(r)) THEN TypeInterfaces_verify(r)
    ELSE IF \E i \in 1..Len(this) : ~interfaces_contains(r, this[i])
    THEN fatal("missing")
    ELSE IF \E i \in 1..Len(other) : ~interfaces_contains(r, other[i])
    THEN fatal("missing")
    ELSE IF \E i \in 1..Len(r) :
                ~(interfaces_contains(this, r[i]) \/ interfaces_contains(other, r[i]))
    THEN fatal("missing")
    ELSE [base |-> "ok"]

RECURSIVE intersection_merge(_, _, _, _)
\* The loop of TypeInterfaces::intersection_with from positions i and j.
intersection_merge(a, b, i, j) ==
    IF ~(i <= Len(a) \/ j <= Len(b)) THEN <<>>
    ELSE IF i <= Len(a) /\ (j > Len(b) \/ compare(a[i], b[j]) < 0)
    THEN intersection_merge(a, b, i + 1, j)
    ELSE IF j <= Len(b) /\ (i > Len(a) \/ compare(b[j], a[i]) < 0)
    THEN intersection_merge(a, b, i, j + 1)
    ELSE <<a[i]>> \o intersection_merge(a, b, i + 1, j + 1)

\* Mutant of intersection_with: the interfaces of either list are kept.
intersection_with_union(this, other) == union_merge(this, other, 1, 1)

\* Mutant of intersection_with: the receiver's own list.
intersection_with_receiver(this, other) == TypeInterfaces_make(this)

\* TypeInterfaces::intersection_with.
intersection_with(this, other) ==
    TypeInterfaces_make(intersection_merge(this, other, 1, 1))

\* The ASSERT part of TypeInterfaces::intersection_with on its result.
intersection_with_verify(this, other, r) ==
    IF is_fatal(TypeInterfaces_verify(r)) THEN TypeInterfaces_verify(r)
    ELSE IF \E i \in 1..Len(this) :
                ~(~interfaces_contains(other, this[i]) \/ interfaces_contains(r, this[i]))
    THEN fatal("missing")
    ELSE IF \E i \in 1..Len(other) :
                ~(~interfaces_contains(this, other[i]) \/ interfaces_contains(r, other[i]))
    THEN fatal("missing")
    ELSE IF \E i \in 1..Len(r) :
                ~(interfaces_contains(this, r[i]) /\ interfaces_contains(other, r[i]))
    THEN fatal("missing")
    ELSE [base |-> "ok"]

\* TypeInterfaces::eq(const Type*).
TypeInterfaces_eq(this, other) ==
    /\ Len(this) = Len(other)
    /\ \A i \in 1..Len(this) : this[i] = other[i]

\* TypeInterfaces::contains(const TypeInterfaces*).
TypeInterfaces_contains(this, other) ==
    TypeInterfaces_eq(intersection_with(this, other), other)

(***************************************************************************)
(* TypeOopPtr.  The fields of TypeOopPtr are shared with TypeInstPtr.      *)
(***************************************************************************)
\* Instance id sentinels (enum of TypeOopPtr).
InstanceTop == -1
InstanceBot == 0

\* new TypeOopPtr(t, ptr, k, interfaces, xk, o, offset, instance_id, speculative, inline_depth).
TypeOopPtr_new(base, ptr, k, interfaces, xk, o, offset, instance_id, speculative, inline_depth) ==
    IF is_fatal(speculative) THEN speculative
    ELSE [base |-> base, ptr |-> ptr, offset |-> offset, speculative |-> speculative,
          inline_depth |-> inline_depth, klass |-> k, interfaces |-> interfaces,
          klass_is_exact |-> xk, const_oop |-> o, instance_id |-> instance_id]

\* TypeOopPtr::make(ptr, offset, instance_id, speculative, inline_depth), before hashcons.
TypeOopPtr_make(ptr, offset, instance_id, speculative, inline_depth) ==
    IF is_fatal(speculative) THEN speculative
    ELSE IF ptr = "Constant" THEN fatal("no constant generic pointers")
    ELSE TypeOopPtr_new("OopPtr", ptr, "Object", <<>>, FALSE, "nullptr", offset,
                        instance_id, speculative, inline_depth)

TypeOopPtr_BOTTOM == TypeOopPtr_make("BotPTR", OffsetBot, InstanceBot, NULL, InlineDepthBottom)

\* TypeOopPtr::meet_instance_id.
meet_instance_id(this_id, instance_id) ==
    IF this_id = InstanceTop THEN instance_id
    ELSE IF instance_id = InstanceTop THEN this_id
    ELSE IF this_id # instance_id THEN InstanceBot
    ELSE this_id

\* TypeOopPtr::dual_instance_id.
dual_instance_id(this_id) ==
    IF this_id = InstanceTop THEN InstanceBot
    ELSE IF this_id = InstanceBot THEN InstanceTop
    ELSE this_id

\* TypeOopPtr::meet_interfaces.
meet_interfaces(this, other) ==
    IF above_centerline(this.ptr) /\ above_centerline(other.ptr)
    THEN union_with(this.interfaces, other.interfaces)
    ELSE IF above_centerline(this.ptr) /\ ~above_centerline(other.ptr)
    THEN other.interfaces
    ELSE IF above_centerline(other.ptr) /\ ~above_centerline(this.ptr)
    THEN this.interfaces
    ELSE intersection_with(this.interfaces, other.interfaces)

\* TypeOopPtr::eq.
TypeOopPtr_eq(this, a) ==
    IF this.klass_is_exact # a.klass_is_exact \/ this.instance_id # a.instance_id
    THEN FALSE
    ELSE this.const_oop = a.const_oop /\ TypePtr_eq(this, a)

\* TypeOopPtr::remove_speculative.
TypeOopPtr_remove_speculative(this) ==
    IF this.speculative = NULL THEN this
    ELSE IF ~(this.inline_depth \in {InlineDepthTop, InlineDepthBottom})
    THEN fatal("non speculative type shouldn't have inline depth")
    ELSE TypeOopPtr_make(this.ptr, this.offset, this.instance_id, NULL, this.inline_depth)

\* TypeOopPtr::xdual.
TypeOopPtr_xdual(this) ==
    IF this.klass # "Object" THEN fatal("no klasses here")
    ELSE IF this.const_oop # "nullptr" THEN fatal("no constants here")
    ELSE TypeOopPtr_new(this.base, dual_ptr(this.ptr), this.klass, this.interfaces,
                        this.klass_is_exact, this.const_oop, dual_offset(this.offset),
                        dual_instance_id(this.instance_id), dual_speculative(this),
                        dual_inline_depth(this.inline_depth))

\* TypeOopPtr::xmeet_helper: the receiver is an OopPtr.
TypeOopPtr_xmeet_helper(this, t) ==
    IF this = t THEN this
    ELSE CASE t.base \in {"Int", "Long", "HalfFloatTop", "HalfFloatCon", "HalfFloatBot",
                          "FloatTop", "FloatCon", "FloatBot",
                          "DoubleTop", "DoubleCon", "DoubleBot",
                          "NarrowOop", "NarrowKlass", "Bottom"} -> Type_BOTTOM
           [] t.base = "Top" -> this
           [] t.base \in {"RawPtr", "MetadataPtr", "KlassPtr", "InstKlassPtr",
                          "AryKlassPtr"} -> TypePtr_BOTTOM
           [] t.base = "AnyPtr" ->
                LET with_anyptr(offset, ptr, speculative, depth) ==
                        CASE t.ptr = "Null" /\ ptr = "Null" ->
                               TypePtr_make("AnyPtr", ptr, offset, speculative, depth)
                          [] t.ptr \in {"TopPTR", "AnyNull"}
                             \/ (t.ptr = "Null" /\ ptr # "Null") ->
                               TypeOopPtr_make(ptr, offset,
                                               meet_instance_id(this.instance_id, InstanceTop),
                                               speculative, depth)
                          [] t.ptr \in {"BotPTR", "NotNull"} ->
                               TypePtr_make("AnyPtr", ptr, offset, speculative, depth)
                          [] OTHER -> typerr(this, t)
                IN with_anyptr(meet_offset(this.offset, t.offset),
                               meet_ptr(this.ptr, t.ptr),
                               xmeet_speculative(this, t),
                               meet_inline_depth(this.inline_depth, t.inline_depth))
           [] t.base = "OopPtr" ->
                TypeOopPtr_make(meet_ptr(this.ptr, t.ptr), meet_offset(this.offset, t.offset),
                                meet_instance_id(this.instance_id, t.instance_id),
                                xmeet_speculative(this, t),
                                meet_inline_depth(this.inline_depth, t.inline_depth))
           [] t.base \in {"InstPtr", "AryPtr"} -> xmeet(t, this)
           [] OTHER -> typerr(this, t)

(***************************************************************************)
(* TypeInstPtr.                                                            *)
(***************************************************************************)
\* new TypeInstPtr(ptr, k, interfaces, xk, o, off, instance_id, speculative, inline_depth).
TypeInstPtr_new(ptr, k, interfaces, xk, o, off, instance_id, speculative, inline_depth) ==
    IF ~(klass_is_loaded(k) \/ o = "nullptr")
    THEN fatal("cannot have constants with non-loaded klass")
    ELSE TypeOopPtr_new("InstPtr", ptr, k, interfaces, xk, o, off, instance_id,
                        speculative, inline_depth)

\* TypeInstPtr::make(ptr, k, interfaces, xk, o, offset, instance_id, speculative,
\* inline_depth), before hashcons.
TypeInstPtr_make(ptr, k, interfaces, xk, o, offset, instance_id, speculative, inline_depth) ==
    IF is_fatal(speculative) THEN speculative
    ELSE IF ~((o = "nullptr" /\ ptr # "Constant") \/ (o # "nullptr" /\ ptr = "Constant"))
    THEN fatal("constant pointers must have a value supplied")
    ELSE IF ptr = "Null" THEN fatal("null pointers are not typed")
    ELSE IF ~(instance_id <= 0 \/ xk) THEN fatal("instances are always exactly typed")
    ELSE LET xk2 == IF ptr = "Constant" THEN TRUE
                    ELSE IF klass_is_loaded(k) /\ ~xk /\ klass_is_final(k) THEN TRUE
                    ELSE xk
         IN TypeInstPtr_new(ptr, k, interfaces, xk2, o, offset, instance_id,
                            speculative, inline_depth)

\* TypeInstPtr::make(ptr, klass): the short form used for the shared types.
TypeInstPtr_make_klass(ptr, k) ==
    TypeInstPtr_make(ptr, k, transitive_interfaces(k), FALSE, "nullptr", 0,
                     InstanceBot, NULL, InlineDepthBottom)

TypeInstPtr_NOTNULL == TypeInstPtr_make_klass("NotNull", "Object")
TypeInstPtr_BOTTOM == TypeInstPtr_make_klass("BotPTR", "Object")

\* TypeInstPtr::with_speculative.
with_speculative(this, speculative) ==
    TypeInstPtr_make(this.ptr, this.klass, this.interfaces, this.klass_is_exact,
                     this.const_oop, this.offset, this.instance_id, speculative,
                     this.inline_depth)

\* TypeInstPtr::cast_to_ptr_type.
TypeInstPtr_cast_to_ptr_type(this, ptr) ==
    IF ptr = this.ptr THEN this
    ELSE TypeInstPtr_make(ptr, this.klass, this.interfaces, this.klass_is_exact,
                          IF ptr = "Constant" THEN this.const_oop ELSE "nullptr",
                          this.offset, this.instance_id, this.speculative,
                          this.inline_depth)

\* TypeInstPtr::remove_speculative.
TypeInstPtr_remove_speculative(this) ==
    IF this.speculative = NULL THEN this
    ELSE IF ~(this.inline_depth \in {InlineDepthTop, InlineDepthBottom})
    THEN fatal("non speculative type shouldn't have inline depth")
    ELSE TypeInstPtr_make(this.ptr, this.klass, this.interfaces, this.klass_is_exact,
                          this.const_oop, this.offset, this.instance_id, NULL,
                          this.inline_depth)

\* TypeInstPtr::xdual.
TypeInstPtr_xdual(this) ==
    TypeInstPtr_new(dual_ptr(this.ptr), this.klass, this.interfaces, this.klass_is_exact,
                    this.const_oop, dual_offset(this.offset),
                    dual_instance_id(this.instance_id), dual_speculative(this),
                    dual_inline_depth(this.inline_depth))

\* TypeInstPtr::eq.
TypeInstPtr_eq(this, p) ==
    /\ this.klass = p.klass
    /\ TypeInterfaces_eq(this.interfaces, p.interfaces)
    /\ TypeOopPtr_eq(this, p)

\* TypeOopPtr::is_loaded.
is_loaded(this) == klass_is_loaded(this.klass)

\* TypePtr::is_same_java_type_as_helper_for_instance.
is_same_java_type_as(this_one, other) ==
    IF ~is_loaded(this_one) \/ ~is_loaded(other) THEN FALSE
    ELSE IF other.base # "InstPtr" THEN FALSE
    ELSE this_one.klass = other.klass
         /\ TypeInterfaces_eq(this_one.interfaces, other.interfaces)

\* TypePtr::is_meet_subtype_of_helper_for_instance, called with the exactness
\* of the two types.
is_meet_subtype_of(this_one, other) ==
    IF other.base # "InstPtr" THEN FALSE
    ELSE IF other.klass = "Object" /\ other.interfaces = <<>> THEN TRUE
    ELSE klass_is_subtype_of(this_one.klass, other.klass)
         /\ (~this_one.klass_is_exact
             \/ TypeInterfaces_contains(this_one.interfaces, other.interfaces))

\* TypePtr::meet_instptr: the kind of meet, and what it leaves in ptr,
\* interfaces, res_klass and res_xk.
meet_instptr(ptr, interfaces, this_type, other_type) ==
    LET this_klass == this_type.klass
        other_klass == other_type.klass
        this_xk == this_type.klass_is_exact
        other_xk == other_type.klass_is_exact
        this_ptr == this_type.ptr
        other_ptr == other_type.ptr
        subtype_or_lca(this_type2, other_type2, this_xk2) ==
            IF is_same_java_type_as(this_type2, other_type2)
            THEN [kind |-> "SUBTYPE", ptr |-> ptr, interfaces |-> interfaces,
                  res_klass |-> this_type2.klass, res_xk |-> this_xk2]
            ELSE [kind |-> "LCA",
                  ptr |-> IF ptr \in {"TopPTR", "AnyNull", "Constant"} THEN "NotNull"
                          ELSE ptr,
                  interfaces |-> intersection_with(this_type.interfaces,
                                                   other_type.interfaces),
                  res_klass |-> least_common_ancestor(this_klass, other_klass),
                  res_xk |-> FALSE]
        adjusted(has_subtype, subtype, subtype_exact, up_up, up_down, down_up) ==
            subtype_or_lca(
                IF up_up THEN subtype ELSE IF up_down THEN other_type ELSE this_type,
                IF up_up THEN subtype ELSE IF down_up THEN this_type ELSE other_type,
                IF ~has_subtype THEN this_xk
                ELSE IF up_up THEN subtype_exact
                ELSE IF up_down THEN other_xk
                ELSE IF down_up THEN this_xk
                ELSE subtype_exact)
        directions(has_subtype, subtype, subtype_exact, up_up, up_down) ==
            adjusted(has_subtype, subtype, subtype_exact, up_up, up_down,
                     has_subtype /\ ~up_up /\ ~up_down
                     /\ above_centerline(other_ptr) /\ ~above_centerline(this_ptr))
        related(has_subtype, subtype, subtype_exact, up_up) ==
            directions(has_subtype, subtype, subtype_exact, up_up,
                       has_subtype /\ ~up_up
                       /\ above_centerline(this_ptr) /\ ~above_centerline(other_ptr))
        subtypes(same, sub1, sub2) ==
            related(same \/ sub1 \/ sub2,
                    IF same \/ sub1 THEN this_type ELSE other_type,
                    IF same THEN (IF below_centerline(ptr) THEN this_xk /\ other_xk
                                  ELSE this_xk \/ other_xk)
                    ELSE IF sub1 THEN this_xk ELSE other_xk,
                    (same \/ sub1 \/ sub2) /\ above_centerline(ptr))
        second_subtype(same, sub1) ==
            subtypes(same, sub1,
                     ~same /\ ~sub1 /\ ~this_xk /\ is_meet_subtype_of(other_type, this_type))
        first_subtype(same) ==
            second_subtype(same,
                           ~same /\ ~other_xk /\ is_meet_subtype_of(this_type, other_type))
    IN IF ptr # "Constant" /\ this_klass = other_klass /\ this_xk = other_xk
       THEN [kind |-> "QUICK", ptr |-> ptr, interfaces |-> interfaces,
             res_klass |-> this_klass, res_xk |-> this_xk]
       ELSE IF ~klass_is_loaded(other_klass) \/ ~klass_is_loaded(this_klass)
       THEN [kind |-> "UNLOADED", ptr |-> ptr, interfaces |-> interfaces,
             res_klass |-> "nullptr", res_xk |-> FALSE]
       ELSE first_subtype(is_same_java_type_as(this_type, other_type))

\* Mutant of xmeet_unloaded: the meet keeps the loaded operand.
xmeet_unloaded_keeps_loaded(this, tinst, interfaces) ==
    IF is_loaded(this) THEN this ELSE tinst

\* TypeInstPtr::xmeet_unloaded.
xmeet_unloaded(this, tinst, interfaces) ==
    LET fall_to(off, ptr, instance_id, speculative, depth, loaded, unloaded) ==
            IF is_fatal(speculative) THEN speculative
            ELSE IF loaded.klass = "Object"
            THEN (IF loaded.ptr = "Null" THEN fatal("insanity check")
                  ELSE IF loaded.ptr = "TopPTR" THEN with_speculative(unloaded, speculative)
                  ELSE IF loaded.ptr = "AnyNull"
                  THEN TypeInstPtr_make(ptr, unloaded.klass, interfaces, FALSE, "nullptr",
                                        off, instance_id, speculative, depth)
                  ELSE with_speculative(IF loaded.ptr = "BotPTR" THEN TypeInstPtr_BOTTOM
                                        ELSE IF unloaded.ptr = "BotPTR"
                                        THEN TypeInstPtr_BOTTOM
                                        ELSE TypeInstPtr_NOTNULL,
                                        speculative))
            ELSE with_speculative(IF ptr # "BotPTR" THEN TypeInstPtr_NOTNULL
                                  ELSE TypeInstPtr_BOTTOM,
                                  speculative)
    IN fall_to(meet_offset(this.offset, tinst.offset),
               meet_ptr(this.ptr, tinst.ptr),
               meet_instance_id(this.instance_id, tinst.instance_id),
               xmeet_speculative(this, tinst),
               meet_inline_depth(this.inline_depth, tinst.inline_depth),
               IF is_loaded(this) THEN this ELSE tinst,
               IF is_loaded(this) THEN tinst ELSE this)

\* TypeInstPtr::xmeet_helper: the receiver is an InstPtr.
TypeInstPtr_xmeet_helper(this, t) ==
    IF this = t THEN this
    ELSE CASE t.base \in {"Int", "Long", "HalfFloatTop", "HalfFloatCon", "HalfFloatBot",
                          "FloatTop", "FloatCon", "FloatBot",
                          "DoubleTop", "DoubleCon", "DoubleBot",
                          "NarrowOop", "NarrowKlass", "Bottom"} -> Type_BOTTOM
           [] t.base = "Top" -> this
           [] t.base \in {"MetadataPtr", "KlassPtr", "InstKlassPtr", "AryKlassPtr",
                          "RawPtr"} -> TypePtr_BOTTOM
           [] t.base = "OopPtr" ->
                LET with_oopptr(offset, ptr, speculative, depth) ==
                        CASE t.ptr \in {"TopPTR", "AnyNull"} ->
                               TypeInstPtr_make(ptr, this.klass, this.interfaces,
                                   this.klass_is_exact,
                                   IF ptr = "Constant" THEN this.const_oop ELSE "nullptr",
                                   offset, meet_instance_id(this.instance_id, InstanceTop),
                                   speculative, depth)
                          [] t.ptr \in {"NotNull", "BotPTR"} ->
                               TypeOopPtr_make(ptr, offset,
                                   meet_instance_id(this.instance_id, t.instance_id),
                                   speculative, depth)
                          [] OTHER -> typerr(this, t)
                IN with_oopptr(meet_offset(this.offset, t.offset),
                               meet_ptr(this.ptr, t.ptr),
                               xmeet_speculative(this, t),
                               meet_inline_depth(this.inline_depth, t.inline_depth))
           [] t.base = "AnyPtr" ->
                LET with_anyptr(offset, ptr, instance_id, speculative, depth) ==
                        CASE t.ptr = "Null" /\ ptr = "Null" ->
                               TypePtr_make("AnyPtr", ptr, offset, speculative, depth)
                          [] t.ptr \in {"TopPTR", "AnyNull"}
                             \/ (t.ptr = "Null" /\ ptr # "Null") ->
                               TypeInstPtr_make(ptr, this.klass, this.interfaces,
                                   this.klass_is_exact,
                                   IF ptr = "Constant" THEN this.const_oop ELSE "nullptr",
                                   offset, instance_id, speculative, depth)
                          [] t.ptr \in {"NotNull", "BotPTR"} ->
                               TypePtr_make("AnyPtr", ptr, offset, speculative, depth)
                          [] OTHER -> typerr(this, t)
                IN with_anyptr(meet_offset(this.offset, t.offset),
                               meet_ptr(this.ptr, t.ptr),
                               meet_instance_id(this.instance_id, InstanceTop),
                               xmeet_speculative(this, t),
                               meet_inline_depth(this.inline_depth, t.inline_depth))
           [] t.base = "InstPtr" ->
                LET tinst == t
                    this_oop == this.const_oop
                    tinst_oop == tinst.const_oop
                    same_oop == this_oop # "nullptr" /\ tinst_oop # "nullptr"
                                /\ this_oop = tinst_oop
                    with_instptr(off, instance_id0, speculative, depth, m) ==
                        IF is_fatal(speculative) THEN speculative
                        ELSE IF m.kind = "UNLOADED"
                        THEN xmeet_unloaded(this, tinst, m.interfaces)
                        ELSE TypeInstPtr_make(
                                 IF m.ptr = "Constant" /\ ~same_oop
                                    /\ ~above_centerline(this.ptr)
                                    /\ ~above_centerline(tinst.ptr)
                                 THEN "NotNull" ELSE m.ptr,
                                 m.res_klass, m.interfaces, m.res_xk,
                                 IF m.ptr # "Constant" THEN "nullptr"
                                 ELSE IF same_oop THEN this_oop
                                 ELSE IF above_centerline(this.ptr) THEN tinst_oop
                                 ELSE IF above_centerline(tinst.ptr) THEN this_oop
                                 ELSE "nullptr",
                                 off,
                                 IF m.kind = "NOT_SUBTYPE" /\ instance_id0 > 0 THEN InstanceBot
                                 ELSE IF m.kind = "LCA" THEN InstanceBot
                                 ELSE instance_id0,
                                 speculative, depth)
                IN with_instptr(meet_offset(this.offset, tinst.offset),
                                meet_instance_id(this.instance_id, tinst.instance_id),
                                xmeet_speculative(this, tinst),
                                meet_inline_depth(this.inline_depth, tinst.inline_depth),
                                meet_instptr(meet_ptr(this.ptr, tinst.ptr),
                                             meet_interfaces(this, tinst), this, tinst))
           [] OTHER -> typerr(this, t)

(***************************************************************************)
(* TypeAry and TypeAryPtr: arrays and pointers to arrays.  The arrays of   *)
(* the model hold primitives, or Top or Bottom after a meet; the array     *)
(* klass is a name ("byte[]"), "nullptr" when there is none.               *)
(***************************************************************************)
\* TypeAryPtr::_array_interfaces: Cloneable and Serializable.
array_interfaces == <<3, 4>>

\* normalize_array_size.
normalize_array_size(size) ==
    IF is_fatal(size) THEN size
    ELSE IF size.widen # WidenMin THEN TypeInt_make("Int", size.lo, size.hi, WidenMin)
    ELSE size

\* TypeAry::make, before hashcons (no compressed oops: the elements of the
\* model are not oops).
TypeAry_make(elem, size, stable) ==
    IF is_fatal(elem) THEN elem
    ELSE IF is_fatal(size) THEN size
    ELSE [base |-> "Array", elem |-> elem, size |-> normalize_array_size(size),
          stable |-> stable]

\* TypeAry::xmeet.
TypeAry_xmeet(this, t) ==
    IF this = t THEN this
    ELSE CASE t.base = "Bottom" -> t
           [] t.base = "Array" ->
                LET sized(size) ==
                        IF is_fatal(size) \/ size.base # "Int" THEN size
                        ELSE TypeAry_make(meet_helper(this.elem, t.elem, TRUE), size,
                                          this.stable /\ t.stable)
                IN sized(xmeet(this.size, t.size))
           [] t.base = "Top" -> this
           [] OTHER -> typerr(this, t)

\* TypeAry::xdual.
TypeAry_xdual(this) ==
    [base |-> "Array", elem |-> dual(this.elem),
     size |-> normalize_array_size(dual(this.size)), stable |-> ~this.stable]

\* TypeAry::eq.
TypeAry_eq(this, a) ==
    this.elem = a.elem /\ this.stable = a.stable /\ this.size = a.size

\* Mutant of ary_must_be_exact: every array type is taken for exact.
ary_must_be_exact_always(ary) == TRUE

\* TypeAry::ary_must_be_exact: true for an array of primitives.  No array
\* of the model holds references.
ary_must_be_exact(ary) ==
    IF ary.elem.base \in {"Bottom", "Top"} THEN FALSE
    ELSE IF ary.elem.base \in {"OopPtr", "InstPtr", "AryPtr"}
    THEN ary.elem.base = "InstPtr" /\ klass_is_loaded(ary.elem.klass)
         /\ klass_is_final(ary.elem.klass)
    ELSE TRUE

\* new TypeAryPtr(ptr, o, ary, k, xk, offset, instance_id, ...).  _klass is
\* not part of eq: for an integral array it is the klass the array was
\* made with, for every other array only a cache of compute_klass, kept
\* null here and computed by TypeAryPtr_klass.
TypeAryPtr_new(ptr, o, ary, k, xk, offset, instance_id, speculative, inline_depth) ==
    [base |-> "AryPtr", ptr |-> ptr, offset |-> offset, speculative |-> speculative,
     inline_depth |-> inline_depth, const_oop |-> o,
     klass |-> IF ary.elem.base = "Int" THEN k ELSE "nullptr",
     klass_is_exact |-> xk, instance_id |-> instance_id,
     interfaces |-> array_interfaces, ary |-> ary]

\* TypeAryPtr::make(ptr, o, ary, k, xk, offset, instance_id, speculative,
\* inline_depth), before hashcons.
TypeAryPtr_make(ptr, o, ary, k, xk, offset, instance_id, speculative, inline_depth) ==
    IF is_fatal(ary) THEN ary
    ELSE IF speculative # NULL /\ is_fatal(speculative) THEN speculative
    ELSE IF k = "nullptr" /\ ary.elem.base = "Int"
    THEN fatal("integral arrays must be pre-equipped with a class")
    ELSE IF ~((ptr = "Constant" /\ o # "nullptr") \/ (ptr # "Constant" /\ o = "nullptr"))
    THEN fatal("constant without oop")
    ELSE IF instance_id > 0 /\ ~(xk \/ o # "nullptr" \/ ary_must_be_exact(ary))
    THEN fatal("instances are always exactly typed")
    ELSE TypeAryPtr_new(ptr, o, ary, k,
                        xk \/ o # "nullptr" \/ ary_must_be_exact(ary),
                        offset, instance_id, speculative, inline_depth)

\* TypeAryPtr::xdual.
TypeAryPtr_xdual(this) ==
    TypeAryPtr_new(dual_ptr(this.ptr), this.const_oop, dual(this.ary), this.klass,
                   this.klass_is_exact, dual_offset(this.offset),
                   dual_instance_id(this.instance_id), dual_speculative(this),
                   dual_inline_depth(this.inline_depth))

\* TypeAryPtr::eq: the array and TypeOopPtr::eq; _klass is not compared.
TypeAryPtr_eq(this, p) == this.ary = p.ary /\ TypeOopPtr_eq(this, p)

\* TypeAryPtr::remove_speculative.
TypeAryPtr_remove_speculative(this) ==
    IF this.speculative = NULL THEN this
    ELSE IF ~(this.inline_depth \in {InlineDepthTop, InlineDepthBottom})
    THEN fatal("non speculative type shouldn't have inline depth")
    ELSE TypeAryPtr_make(this.ptr, this.const_oop, this.ary, this.klass,
                         this.klass_is_exact, this.offset, this.instance_id, NULL,
                         this.inline_depth)

RECURSIVE base_element_type(_)
\* TypeAryPtr::base_element_type.
base_element_type(this) ==
    IF this.ary.elem.base = "AryPtr" THEN base_element_type(this.ary.elem)
    ELSE this.ary.elem

\* The element is Type::TOP or Type::BOTTOM.
top_or_bottom(this) == base_element_type(this).base \in {"Top", "Bottom"}

\* TypeAryPtr::klass: the cached _klass, or compute_klass from the element.
TypeAryPtr_klass(this) ==
    IF this.klass # "nullptr" THEN this.klass
    ELSE CASE this.ary.elem.base \in {"InstPtr", "AryPtr", "Top", "Bottom"} -> "nullptr"
           [] this.ary.elem.base \in {"FloatTop", "FloatCon", "FloatBot"} -> "float[]"
           [] this.ary.elem.base \in {"DoubleTop", "DoubleCon", "DoubleBot"} -> "double[]"
           [] OTHER -> "nullptr"

\* TypePtr::is_same_java_type_as_helper_for_array, for arrays of primitives
\* (both elem()->make_ptr() are null).
is_same_java_type_as_for_array(this, other) ==
    IF other.base # "AryPtr" \/ top_or_bottom(this) THEN FALSE
    ELSE IF top_or_bottom(other) THEN FALSE
    ELSE TypeAryPtr_klass(this) = TypeAryPtr_klass(other)

\* TypePtr::is_meet_subtype_of_helper_for_array, for arrays of primitives:
\* a type array klass is a subtype of itself only.
is_meet_subtype_of_for_array(this, other) ==
    IF top_or_bottom(this) THEN FALSE
    ELSE TypeAryPtr_klass(this) = TypeAryPtr_klass(other)

\* TypePtr::meet_aryptr: the result, with the out-parameters ptr, elem,
\* res_klass and res_xk.
meet_aryptr(ptr, elem, this_ary, other_ary) ==
    LET body(this_top_or_bottom, other_top_or_bottom, this_klass, other_klass,
             this_xk, other_xk, this_ptr, other_ptr, same) ==
            LET \* the switch on other_ptr at the end
                tail(res, e, k) ==
                    IF other_ptr = "Null" THEN fatal("ShouldNotReachHere")
                    ELSE [base |-> "MeetResult", result |-> res, ptr |-> ptr,
                          elem |-> e, res_klass |-> k,
                          res_xk |->
                            CASE other_ptr \in {"AnyNull", "TopPTR"} ->
                                   IF below_centerline(this_ptr) THEN this_xk
                                   ELSE (other_xk \/ this_xk)
                              [] other_ptr = "Constant" ->
                                   IF this_ptr = "Constant" THEN TRUE
                                   ELSE IF above_centerline(this_ptr) THEN TRUE
                                   ELSE this_xk /\ (same \/ (this_top_or_bottom
                                                             /\ other_top_or_bottom))
                              [] OTHER ->
                                   IF above_centerline(this_ptr) THEN other_xk
                                   ELSE (other_xk /\ this_xk)
                                        /\ (same \/ (this_top_or_bottom
                                                     /\ other_top_or_bottom))]
                fell(e) ==
                    [base |-> "MeetResult", result |-> "NOT_SUBTYPE", ptr |-> "NotNull",
                     elem |-> e, res_klass |-> "nullptr", res_xk |-> FALSE]
            IN IF elem.base = "Int"
               THEN (IF this_top_or_bottom THEN tail("SUBTYPE", elem, other_klass)
                     ELSE IF other_top_or_bottom \/ other_klass = this_klass
                     THEN tail("SUBTYPE", elem, this_klass)
                     ELSE IF above_centerline(ptr) \/ ptr = "Constant"
                     THEN fell(Type_BOTTOM)
                     ELSE tail("NOT_SUBTYPE", Type_BOTTOM, "nullptr"))
               ELSE (IF (above_centerline(ptr) \/ ptr = "Constant") /\ ~same
                        /\ ~this_top_or_bottom /\ ~other_top_or_bottom
                        /\ ((other_xk /\ this_xk)
                            \/ (other_xk /\ ~is_meet_subtype_of_for_array(other_ary, this_ary))
                            \/ (this_xk /\ ~is_meet_subtype_of_for_array(this_ary, other_ary)))
                     THEN fell(IF above_centerline(ptr)
                                  \/ (isa_ptr(elem) /\ above_centerline(elem.ptr))
                               THEN Type_BOTTOM ELSE elem)
                     ELSE tail("SUBTYPE", elem, "nullptr"))
    IN body(top_or_bottom(this_ary), top_or_bottom(other_ary),
            TypeAryPtr_klass(this_ary), TypeAryPtr_klass(other_ary),
            this_ary.klass_is_exact, other_ary.klass_is_exact,
            this_ary.ptr, other_ary.ptr,
            is_same_java_type_as_for_array(this_ary, other_ary))

\* The subclass test of TypeAryPtr::xmeet_helper, case InstPtr: tp is an
\* inexact Object whose interfaces the array implements.
array_subclasses(this, tp) ==
    /\ tp.klass = "Object"
    /\ \A i \in 1..Len(tp.interfaces) : interfaces_contains(this.interfaces, tp.interfaces[i])
    /\ ~tp.klass_is_exact

\* TypeAryPtr::xmeet_helper.  speculative is xmeet_speculative(t) and tm is
\* _ary->meet_speculative(tap->_ary), which the cases that use them compute.
TypeAryPtr_xmeet_helper(this, t) ==
    LET cases(speculative, tm) ==
          CASE t.base \in {"Int", "Long", "HalfFloatTop", "HalfFloatCon", "HalfFloatBot",
                           "FloatTop", "FloatCon", "FloatBot",
                           "DoubleTop", "DoubleCon", "DoubleBot",
                           "NarrowOop", "NarrowKlass", "Bottom"} -> Type_BOTTOM
            [] t.base = "Top" -> this
            [] t.base = "OopPtr" ->
                 LET with_oopptr(offset, ptr, depth) ==
                         CASE t.ptr \in {"TopPTR", "AnyNull"} ->
                                TypeAryPtr_make(ptr,
                                    IF ptr = "Constant" THEN this.const_oop ELSE "nullptr",
                                    this.ary, this.klass, this.klass_is_exact, offset,
                                    meet_instance_id(this.instance_id, InstanceTop),
                                    speculative, depth)
                           [] t.ptr \in {"BotPTR", "NotNull"} ->
                                TypeOopPtr_make(ptr, offset,
                                    meet_instance_id(this.instance_id, t.instance_id),
                                    speculative, depth)
                           [] OTHER -> fatal("ShouldNotReachHere")
                 IN with_oopptr(meet_offset(this.offset, t.offset),
                                meet_ptr(this.ptr, t.ptr),
                                meet_inline_depth(this.inline_depth, t.inline_depth))
            [] t.base = "AnyPtr" ->
                 LET with_anyptr(offset, ptr, depth) ==
                         CASE t.ptr = "TopPTR" -> this
                           [] t.ptr \in {"BotPTR", "NotNull"}
                              \/ (t.ptr = "Null" /\ ptr = "Null") ->
                                TypePtr_make("AnyPtr", ptr, offset, speculative, depth)
                           [] t.ptr = "AnyNull" \/ (t.ptr = "Null" /\ ptr # "Null") ->
                                TypeAryPtr_make(ptr,
                                    IF ptr = "Constant" THEN this.const_oop ELSE "nullptr",
                                    this.ary, this.klass, this.klass_is_exact, offset,
                                    meet_instance_id(this.instance_id, InstanceTop),
                                    speculative, depth)
                           [] OTHER -> fatal("ShouldNotReachHere")
                 IN with_anyptr(meet_offset(this.offset, t.offset),
                                meet_ptr(this.ptr, t.ptr),
                                meet_inline_depth(this.inline_depth, t.inline_depth))
            [] t.base \in {"MetadataPtr", "KlassPtr", "InstKlassPtr", "AryKlassPtr",
                           "RawPtr"} -> TypePtr_BOTTOM
            [] t.base = "AryPtr" ->
                 LET tap == t
                     finish(m, o_same, off, instance_id, depth) ==
                         IF is_fatal(m) THEN m
                         ELSE TypeAryPtr_make(
                                  IF m.ptr = "Constant" /\ ~o_same
                                     /\ ~above_centerline(this.ptr)
                                     /\ ~above_centerline(tap.ptr)
                                  THEN "NotNull" ELSE m.ptr,
                                  IF m.ptr # "Constant" THEN "nullptr"
                                  ELSE IF o_same THEN tap.const_oop
                                  ELSE IF above_centerline(this.ptr) THEN tap.const_oop
                                  ELSE IF above_centerline(tap.ptr) THEN this.const_oop
                                  ELSE "nullptr",
                                  TypeAry_make(m.elem, tm.size, tm.stable),
                                  m.res_klass, m.res_xk, off,
                                  IF m.result = "NOT_SUBTYPE" THEN InstanceBot
                                  ELSE instance_id,
                                  speculative, depth)
                 IN IF is_fatal(tm) \/ tm.base # "Array" THEN tm
                    ELSE finish(meet_aryptr(meet_ptr(this.ptr, tap.ptr), tm.elem,
                                            this, tap),
                                this.const_oop # "nullptr" /\ tap.const_oop # "nullptr"
                                /\ this.const_oop = tap.const_oop,
                                meet_offset(this.offset, tap.offset),
                                meet_instance_id(this.instance_id, tap.instance_id),
                                meet_inline_depth(this.inline_depth, tap.inline_depth))
            [] t.base = "InstPtr" ->
                 LET tp == t
                     with_instptr(offset, ptr, instance_id, depth, subclasses) ==
                         IF (ptr \in {"TopPTR", "AnyNull"} /\ subclasses)
                            \/ (ptr \in {"Constant", "NotNull", "BotPTR"}
                                /\ above_centerline(tp.ptr) /\ subclasses)
                         THEN TypeAryPtr_make(ptr,
                                  IF ptr = "Constant" THEN this.const_oop ELSE "nullptr",
                                  this.ary, this.klass, this.klass_is_exact, offset,
                                  instance_id, speculative, depth)
                         ELSE IF ptr = "Null" THEN typerr(this, t)
                         ELSE TypeInstPtr_make(
                                  IF ptr \in {"TopPTR", "AnyNull", "Constant"}
                                  THEN "NotNull" ELSE ptr,
                                  "Object",
                                  intersection_with(this.interfaces, tp.interfaces),
                                  FALSE, "nullptr", offset,
                                  IF ptr \in {"TopPTR", "AnyNull"} \/ instance_id > 0
                                  THEN InstanceBot ELSE instance_id,
                                  speculative, depth)
                 IN with_instptr(meet_offset(this.offset, tp.offset),
                                 meet_ptr(this.ptr, tp.ptr),
                                 meet_instance_id(this.instance_id, tp.instance_id),
                                 meet_inline_depth(this.inline_depth, tp.inline_depth),
                                 array_subclasses(this, tp))
            [] OTHER -> typerr(this, t)
    IN IF this = t THEN this
       ELSE cases(IF isa_ptr(t) /\ t.base \in {"OopPtr", "AnyPtr", "AryPtr", "InstPtr"}
                  THEN xmeet_speculative(this, t) ELSE NULL,
                  IF t.base = "AryPtr" THEN meet_helper(this.ary, t.ary, TRUE) ELSE NULL)

(***************************************************************************)
(* Virtual dispatch on the class of the receiver, and the drivers.         *)
(***************************************************************************)
\* remove_speculative (virtual): Type::remove_speculative returns this.
remove_speculative(this) ==
    CASE this.base \in {"AnyPtr", "RawPtr"} -> TypePtr_remove_speculative(this)
      [] this.base = "OopPtr" -> TypeOopPtr_remove_speculative(this)
      [] this.base = "InstPtr" -> TypeInstPtr_remove_speculative(this)
      [] this.base = "AryPtr" -> TypeAryPtr_remove_speculative(this)
      [] OTHER -> this

\* Mutant of maybe_remove_speculative: the speculative part is never removed.
maybe_remove_speculative_keeps(this, include_speculative) == this

\* Type::maybe_remove_speculative.
maybe_remove_speculative(this, include_speculative) ==
    IF ~include_speculative THEN remove_speculative(this) ELSE this

\* xmeet_helper (virtual) of the pointer classes that inherit TypePtr::xmeet.
xmeet_helper(this, t) ==
    CASE this.base = "AnyPtr" -> TypePtr_xmeet_helper(this, t)
      [] this.base = "OopPtr" -> TypeOopPtr_xmeet_helper(this, t)
      [] this.base = "InstPtr" -> TypeInstPtr_xmeet_helper(this, t)
      [] this.base = "AryPtr" -> TypeAryPtr_xmeet_helper(this, t)

\* Mutant of TypePtr::xmeet: a speculative part that adds nothing is kept.
TypePtr_xmeet_keeps(this, t) == xmeet_helper(this, t)

\* TypePtr::xmeet.
TypePtr_xmeet(this, t) ==
    LET drop_redundant(res, no_spec) ==
            IF is_fatal(no_spec) THEN no_spec
            ELSE IF no_spec = res.speculative THEN no_spec
            ELSE res
        check(res) ==
            IF is_fatal(res) \/ ~isa_ptr(res) THEN res
            ELSE IF res.speculative # NULL
            THEN drop_redundant(res, remove_speculative(res))
            ELSE res
    IN check(xmeet_helper(this, t))

\* xmeet (virtual).
xmeet(this, t) ==
    CASE this.base \in PlainBases -> Type_xmeet(this, t)
      [] this.base = "FloatCon" -> TypeF_xmeet(this, t)
      [] this.base = "DoubleCon" -> TypeD_xmeet(this, t)
      [] this.base \in {"Int", "Long"} -> TypeInt_xmeet(this, t)
      [] this.base = "RawPtr" -> TypeRawPtr_xmeet(this, t)
      [] this.base \in {"AnyPtr", "OopPtr", "InstPtr", "AryPtr"} -> TypePtr_xmeet(this, t)
      [] this.base = "Array" -> TypeAry_xmeet(this, t)

\* xdual (virtual).
xdual(this) ==
    CASE this.base \in PlainBases -> Type_xdual(this)
      [] this.base = "FloatCon" -> TypeF_xdual(this)
      [] this.base = "DoubleCon" -> TypeD_xdual(this)
      [] this.base \in {"Int", "Long"} -> TypeInt_xdual(this)
      [] this.base = "AnyPtr" -> TypePtr_xdual(this)
      [] this.base = "RawPtr" -> TypeRawPtr_xdual(this)
      [] this.base = "OopPtr" -> TypeOopPtr_xdual(this)
      [] this.base = "InstPtr" -> TypeInstPtr_xdual(this)
      [] this.base = "AryPtr" -> TypeAryPtr_xdual(this)
      [] this.base = "Array" -> TypeAry_xdual(this)

\* eq (virtual): Type::eq is true.
eq(this, t) ==
    CASE this.base = "FloatCon" -> TypeF_eq(this, t)
      [] this.base = "DoubleCon" -> TypeD_eq(this, t)
      [] this.base \in {"Int", "Long"} -> TypeInt_eq(this, t)
      [] this.base = "AnyPtr" -> TypePtr_eq(this, t)
      [] this.base = "RawPtr" -> TypeRawPtr_eq(this, t)
      [] this.base = "OopPtr" -> TypeOopPtr_eq(this, t)
      [] this.base = "InstPtr" -> TypeInstPtr_eq(this, t)
      [] this.base = "AryPtr" -> TypeAryPtr_eq(this, t)
      [] this.base = "Array" -> TypeAry_eq(this, t)
      [] OTHER -> TRUE

\* Mutant of equals: every comparison "missed badly".
equals_missed_badly(t1, t2) == FALSE

\* Type::equals.
equals(t1, t2) == IF t1.base # t2.base THEN FALSE ELSE eq(t1, t2)

\* Mutant of meet_helper: only the receiver loses its speculative part.
meet_helper_keeps_argument(this, t, include_speculative) ==
    LET do_meet(this_t) == IF is_fatal(this_t) THEN this_t ELSE xmeet(this_t, t)
    IN do_meet(maybe_remove_speculative(this, include_speculative))

\* Type::meet_helper, the part every build runs.
meet_helper(this, t, include_speculative) ==
    LET do_meet(this_t, t2) ==
            IF is_fatal(this_t) THEN this_t
            ELSE IF is_fatal(t2) THEN t2
            ELSE xmeet(this_t, t2)
    IN do_meet(maybe_remove_speculative(this, include_speculative),
               maybe_remove_speculative(t, include_speculative))

\* Type::meet.
meet(this, t) == meet_helper(this, t, FALSE)

\* Type::check_symmetrical (debug builds): "ok", or the fatal error it raises.
\* verify.meet computes t1->xmeet(t2).  mt2 is t->xmeet(this), t2t and t2this
\* are dual_join->xmeet(t->dual()) and dual_join->xmeet(this->dual()).
check_symmetrical_asserts(this, t, mt, mt2, t2t, t2this) ==
    IF is_fatal(mt2) THEN mt2
    ELSE IF mt # mt2 THEN fatal("meet not commutative")
    ELSE IF is_fatal(t2t) THEN t2t
    ELSE IF is_fatal(t2this) THEN t2this
    ELSE IF t2t # dual(t) \/ t2this # dual(this) THEN fatal("meet not symmetric")
    ELSE [base |-> "ok"]

check_symmetrical_with_join(this, t, mt, dual_join) ==
    check_symmetrical_asserts(this, t, mt, xmeet(t, this), xmeet(dual_join, dual(t)),
                              xmeet(dual_join, dual(this)))

check_symmetrical(this, t, mt) == check_symmetrical_with_join(this, t, mt, dual(mt))

\* The ASSERT part of Type::meet_helper: the two check_symmetrical calls, the
\* second one on the duals and mt_dual = this_t->dual()->xmeet(t->dual()).
verify_meet_of_duals(this_t, t, mt_dual) ==
    IF is_fatal(mt_dual) THEN mt_dual
    ELSE check_symmetrical(dual(this_t), dual(t), mt_dual)

verify_meet_after_first(this_t, t, first) ==
    IF is_fatal(first) THEN first
    ELSE verify_meet_of_duals(this_t, t, xmeet(dual(this_t), dual(t)))

verify_meet_of(this_t, t, mt) ==
    IF is_fatal(mt) THEN mt
    ELSE verify_meet_after_first(this_t, t, check_symmetrical(this_t, t, mt))

verify_meet_stripped(this_t, t) == verify_meet_of(this_t, t, xmeet(this_t, t))

verify_meet(this, t, include_speculative) ==
    verify_meet_stripped(maybe_remove_speculative(this, include_speculative),
                         maybe_remove_speculative(t, include_speculative))

\* Type::join_helper.
join_helper(this, t, include_speculative) ==
    LET to_join(m) == IF is_fatal(m) THEN m ELSE dual(m)
    IN to_join(meet_helper(dual(this), dual(t), include_speculative))

\* Type::empty reaches its default case, ShouldNotReachHere(), for the plain
\* bases it does not list.
empty_ShouldNotReachHere(this) ==
    /\ this.base \in PlainBases
    /\ this.base \notin {"DoubleTop", "FloatTop", "HalfFloatTop", "Top", "Half", "Abio",
                         "Return_Address", "Memory", "Bottom", "HalfFloatBot",
                         "FloatBot", "DoubleBot"}

\* empty (virtual): Type::empty, TypeF::empty, TypeD::empty, TypeInt::empty,
\* TypeLong::empty, TypePtr::empty.
empty(this) ==
    CASE this.base \in {"DoubleTop", "FloatTop", "HalfFloatTop", "Top"} -> TRUE
      [] this.base \in PtrBases -> this.offset = OffsetTop \/ above_centerline(this.ptr)
      [] OTHER -> FALSE

\* Type::filter_helper, TypeOopPtr::filter_helper.
Type_filter_helper(this, kills, include_speculative) ==
    LET keep(ft) ==
            IF is_fatal(ft) THEN ft
            ELSE IF empty_ShouldNotReachHere(ft) THEN fatal("ShouldNotReachHere")
            ELSE IF empty(ft) THEN Type_TOP
            ELSE ft
    IN keep(join_helper(this, kills, include_speculative))

\* TypeInt::filter_helper, TypeLong::filter_helper.
TypeInt_filter_helper(this, kills, include_speculative) ==
    LET keep(ft) ==
            IF this.is_dual THEN fatal("dual types should only be used for join calculation")
            ELSE IF is_fatal(ft) THEN ft
            ELSE IF ft.base # this.base THEN Type_TOP
            ELSE IF ft.is_dual THEN fatal("dual types should only be used for join calculation")
            ELSE IF ft.widen < this.widen
            THEN TypeInt_new(this.base, ft, this.widen, FALSE)
            ELSE ft
    IN keep(join_helper(this, kills, include_speculative))

\* filter_helper (virtual).
filter_helper(this, kills, include_speculative) ==
    IF this.base \in {"Int", "Long"}
    THEN TypeInt_filter_helper(this, kills, include_speculative)
    ELSE Type_filter_helper(this, kills, include_speculative)

\* Type::filter.
filter(this, kills) == filter_helper(this, kills, FALSE)

(***************************************************************************)
(* The types of the meet specification: what the factories make for a few  *)
(* arguments of every family, and the duals hashcons creates with them.    *)
(***************************************************************************)
PlainTypes == {Type_make(b) : b \in PlainBases}

FloatTypes == {TypeF_make(f) : f \in FloatValues} \cup {TypeD_make(d) : d \in FloatValues}

IntTypes ==
    {TypeInt_make("Int", min_jint, max_jint, WidenMax),
     TypeInt_make("Int", 0, 1, WidenMin),
     TypeInt_make("Int", 0, max_jint, WidenMin),
     TypeInt_make("Int", -1, 1, WidenMin),
     TypeInt_make("Int", min_jint, -1, WidenMin),
     TypeInt_make_con("Int", 0),
     TypeInt_make_con("Int", -1),
     TypeInt_BYTE,
     TypeInt_CHAR,
     TypeInt_make("Long", min_jint, max_jint, WidenMax),
     TypeInt_make("Long", 0, 1, WidenMin),
     TypeInt_make_con("Long", 0)}

AnyPtrTypes ==
    {TypePtr_make("AnyPtr", p, o, NULL, InlineDepthBottom) :
        p \in {"Null", "NotNull", "BotPTR"}, o \in {0, 8, OffsetBot}}

RawPtrTypes ==
    {TypeRawPtr_make("BotPTR"), TypeRawPtr_make("NotNull"),
     TypeRawPtr_make_bits(4096), TypeRawPtr_make_bits(8192)}

OopPtrTypes ==
    {TypeOopPtr_make(p, o, InstanceBot, NULL, InlineDepthBottom) :
        p \in {"NotNull", "BotPTR"}, o \in {0, OffsetBot}}

\* Exact and inexact instance pointers of every class of the hierarchy.
InstPtrOfKlass ==
    {TypeInstPtr_make(p, k, transitive_interfaces(k), xk, "nullptr", 0, InstanceBot,
                      NULL, InlineDepthBottom) :
        p \in {"NotNull", "BotPTR"}, k \in Klasses, xk \in BOOLEAN}

\* Constant oops, interface-typed values, a known instance, a field address.
InstPtrOther ==
    {TypeInstPtr_make("Constant", "A", <<1>>, TRUE, "oop1", 0, InstanceBot, NULL, InlineDepthBottom),
     TypeInstPtr_make("Constant", "A", <<1>>, TRUE, "oop2", 0, InstanceBot, NULL, InlineDepthBottom),
     TypeInstPtr_make("Constant", "C", <<2>>, TRUE, "oop3", 0, InstanceBot, NULL, InlineDepthBottom),
     TypeInstPtr_make("NotNull", "Object", <<1>>, FALSE, "nullptr", 0, InstanceBot, NULL, InlineDepthBottom),
     TypeInstPtr_make("BotPTR", "Object", <<2>>, FALSE, "nullptr", 0, InstanceBot, NULL, InlineDepthBottom),
     TypeInstPtr_make("NotNull", "Object", <<1, 2>>, FALSE, "nullptr", 0, InstanceBot, NULL, InlineDepthBottom),
     TypeInstPtr_make("NotNull", "A", <<1>>, TRUE, "nullptr", 0, 1, NULL, InlineDepthBottom),
     TypeInstPtr_make("NotNull", "D", <<1>>, TRUE, "nullptr", 0, 2, NULL, InlineDepthBottom),
     TypeInstPtr_make("BotPTR", "A", <<1>>, FALSE, "nullptr", OffsetBot, InstanceBot, NULL, InlineDepthBottom)}

\* Types that carry a speculative part (profiling says: an exact B, an exact D).
SpeculativeTypes ==
    {TypeInstPtr_make("BotPTR", "Object", <<>>, FALSE, "nullptr", 0, InstanceBot,
         TypeInstPtr_make("NotNull", "B", <<1, 2>>, TRUE, "nullptr", 0, InstanceBot, NULL, InlineDepthBottom),
         InlineDepthBottom),
     TypeInstPtr_make("NotNull", "A", <<1>>, FALSE, "nullptr", 0, InstanceBot,
         TypeInstPtr_make("NotNull", "D", <<1>>, TRUE, "nullptr", 0, InstanceBot, NULL, InlineDepthBottom),
         InlineDepthBottom)}

TypeSeeds ==
    PlainTypes \cup FloatTypes \cup IntTypes \cup AnyPtrTypes \cup RawPtrTypes
    \cup OopPtrTypes \cup InstPtrOfKlass \cup InstPtrOther \cup SpeculativeTypes

\* Every seed with the dual Type::hashcons enters with it.
Types == TypeSeeds \cup {xdual(t) : t \in TypeSeeds}

(***************************************************************************)
(* The meet specification: one call of meet, dual or filter on canonical   *)
(* types.                                                                  *)
(***************************************************************************)
NoCall == [op |-> "none"]

InitMeet ==
    /\ recv \in Types
    /\ arg \in Types
    /\ result = NoCall
    /\ heap = <<>> /\ tdic = {} /\ last = NoCall /\ fault = "none"
    /\ VerifyIdle /\ ThreadsIdle /\ CdsIdle
    /\ proto = NoCall /\ made = NULL /\ query = NoCall

\* recv->meet(arg) (include_speculative false) or recv->meet_speculative(arg)
\* (true); verify is what the ASSERT part of meet_helper concludes.
Meet ==
    /\ result = NoCall
    /\ \E include_speculative \in BOOLEAN :
          result' = [op |-> "meet", include_speculative |-> include_speculative,
                     mt |-> meet_helper(recv, arg, include_speculative),
                     verify |-> verify_meet(recv, arg, include_speculative)]
    /\ UNCHANGED <<verifyVars, threadVars, recv, arg, dictVars, intVars, cdsVars>>

\* recv->dual().
Dual ==
    /\ result = NoCall
    /\ result' = [op |-> "dual", mt |-> dual(recv)]
    /\ UNCHANGED <<verifyVars, threadVars, recv, arg, dictVars, intVars, cdsVars>>

\* recv->filter(arg).
Filter ==
    /\ result = NoCall
    /\ result' = [op |-> "filter", mt |-> filter(recv, arg)]
    /\ UNCHANGED <<verifyVars, threadVars, recv, arg, dictVars, intVars, cdsVars>>

NextMeet == Meet \/ Dual \/ Filter

SpecMeet == InitMeet /\ [][NextMeet]_vars

(***************************************************************************)
(* Properties of meet, dual and filter, checked under SpecMeet.            *)
(***************************************************************************)
\* The operand meet_helper hands to xmeet in the call the state records.
meet_operand(t) == IF result.include_speculative THEN t ELSE remove_speculative(t)

\* C1: for all types A and B, meet(A,B) == meet(B,A): once A->meet(B) has
\* returned a type, B->meet(A) returns that same canonical instance.
C1_MeetCommutative ==
    (result.op = "meet" /\ ~is_fatal(result.mt))
        => meet_helper(arg, recv, result.include_speculative) = result.mt

\* C2: the dual of a meet is the join of the duals: with M = meet(A,B), the
\* meet of dual(M) with dual(A) is dual(A), and with dual(B) it is dual(B).
C2_DualOfMeetIsJoin ==
    (result.op = "meet" /\ ~is_fatal(result.mt))
        => LET a == meet_operand(recv)
               b == meet_operand(arg)
               dual_join == dual(result.mt)
           IN /\ meet_helper(dual_join, dual(a), result.include_speculative) = dual(a)
              /\ meet_helper(dual_join, dual(b), result.include_speculative) = dual(b)

\* C3 as stated: for all types A, meet(A, Top) == A and meet(A, Bottom) == Bottom.
C3_TopIdentityBottomAbsorbs ==
    result.op = "meet"
        => /\ arg = Type_TOP => result.mt = recv
           /\ arg = Type_BOTTOM => result.mt = Type_BOTTOM

\* C3 amended: meet(A, Top) is A without its speculative part (A itself when A
\* has none), meet_speculative(A, Top) is A, and both give Bottom against Bottom.
C3_TopIdentityWithoutSpeculative ==
    result.op = "meet"
        => /\ arg = Type_TOP =>
                result.mt = (IF result.include_speculative THEN recv
                             ELSE remove_speculative(recv))
           /\ arg = Type_BOTTOM => result.mt = Type_BOTTOM

\* A meet (not meet_speculative) of a type with a speculative part against Top
\* has returned the type without that part.
C3_Witness ==
    /\ result.op = "meet" /\ ~result.include_speculative
    /\ arg = Type_TOP
    /\ recv.base = "InstPtr" /\ recv.speculative # NULL
    /\ result.mt = remove_speculative(recv) /\ result.mt # recv

\* C4 as stated: for all types A, meet(A,A) == A.
C4_MeetIdempotent ==
    (result.op = "meet" /\ recv = arg) => result.mt = recv

\* C4 amended: meet(A,A) is A without its speculative part (A itself when A has
\* none); meet_speculative(A,A) is A.
C4_MeetIdempotentWithoutSpeculative ==
    (result.op = "meet" /\ recv = arg)
        => result.mt = (IF result.include_speculative THEN recv
                        ELSE remove_speculative(recv))

\* A type with a speculative part has been met with itself, once by meet and
\* once by meet_speculative.
C4_Witness ==
    /\ result.op = "meet" /\ recv = arg
    /\ recv.base = "InstPtr" /\ recv.speculative # NULL
    /\ result.mt = meet_operand(recv)

\* The bases Type::xmeet requires to "match exactly", and those its switch
\* leaves to the default case.
ControlLikeBases == {"Control", "Abio", "Memory", "Return_Address", "Half"}

PlainFloatBases ==
    {"HalfFloatTop", "HalfFloatBot", "FloatTop", "FloatBot", "DoubleTop", "DoubleBot"}

\* The mixes of two different types on which xmeet ends in an error.
meet_aborts(a, b) ==
    /\ a # b
    /\ \/ a.base \in ControlLikeBases /\ b.base \notin {"Top", "Bottom"}
       \/ b.base \in ControlLikeBases /\ a.base \notin {"Top", "Bottom"}
       \/ a.base \in PlainFloatBases /\ b.base \in {"AnyPtr", "RawPtr"}
       \/ a.base = "RawPtr"
            /\ b.base \in PlainFloatBases \cup {"FloatCon", "DoubleCon", "Int", "Long"}
       \/ a.base \in {"Int", "Long"} /\ a.base = b.base /\ a.is_dual # b.is_dual

common_interfaces(a, b) ==
    SelectSeq(a, LAMBDA k : \E j \in 1..Len(b) : b[j] = k)

\* An instance pointer of a loaded class.
is_loaded_instptr(t) == t.base = "InstPtr" /\ klass_is_loaded(t.klass)

\* Two loaded classes neither of which is a subtype of the other.
unrelated_klasses(k1, k2) ==
    ~klass_is_subtype_of(k1, k2) /\ ~klass_is_subtype_of(k2, k1)

\* C8: the meet of two instance pointers of loaded, unrelated classes is an
\* instance pointer of their least common ancestor, with the interfaces both
\* operands have, a ptr of NotNull or BotPTR, and not exact.
C8_UnrelatedClassesMeetAtLCA ==
    (/\ result.op = "meet"
     /\ is_loaded_instptr(recv) /\ is_loaded_instptr(arg)
     /\ unrelated_klasses(recv.klass, arg.klass))
        => /\ result.mt.base = "InstPtr"
           /\ result.mt.klass = least_common_ancestor(recv.klass, arg.klass)
           /\ result.mt.interfaces = common_interfaces(recv.interfaces, arg.interfaces)
           /\ result.mt.ptr \in {"NotNull", "BotPTR"}
           /\ ~result.mt.klass_is_exact

\* Two dual (above the centerline) exact pointers of the unrelated classes B
\* and C have been met: the result is an inexact NotNull A-or-Object pointer.
C8_Witness ==
    /\ result.op = "meet"
    /\ is_loaded_instptr(recv) /\ is_loaded_instptr(arg)
    /\ recv.klass = "B" /\ arg.klass = "C"
    /\ above_centerline(recv.ptr) /\ above_centerline(arg.ptr)
    /\ recv.klass_is_exact /\ arg.klass_is_exact
    /\ result.mt.base = "InstPtr" /\ result.mt.klass = "Object"
    /\ result.mt.interfaces = <<2>> /\ result.mt.ptr = "NotNull"

(***************************************************************************)
(* The type dictionary.  heap[a] is the Type object at address a: its      *)
(* structural value t, its _dual field (0 is nullptr) and whether it is    *)
(* still allocated.  tdic holds the addresses Dict::Insert has entered.    *)
(***************************************************************************)
\* The Type constructor (operator new in the type arena): _dual is nullptr.
new_object(h, t) == Append(h, [t |-> t, dual |-> 0, live |-> TRUE])

\* delete of a Type object.
delete_object(h, a) == [h EXCEPT ![a].live = FALSE]

\* Dict lookup with the comparator Initialize_shared installs (Type::equals):
\* the address of the entry equal to t, 0 when there is none.
Dict_find(h, d, t) ==
    LET found == {a \in d : equals(h[a].t, t)}
    IN IF found = {} THEN 0 ELSE CHOOSE a \in found : TRUE

\* Mutant of finish_symmetric: the dual is left without its back link.
finish_symmetric_skipped(h, this, dual_addr) == h

\* "((Type*)_dual)->_dual = this; // Finish up being symmetric".
finish_symmetric(h, this, dual_addr) == [h EXCEPT ![dual_addr].dual = this]

\* Mutant of insert_dual: the dual is not entered into the table.
insert_dual_skipped(d, dual_addr) == d

\* "tdic->Insert((void*)_dual,(void*)_dual)".
insert_dual(d, dual_addr) == d \cup {dual_addr}

\* Type::hashcons on the object at address this of heap h, with dictionary d:
\* the heap and dictionary it leaves, the address it returns and the assertion
\* that failed, if one did.
hashcons(h, d, this) ==
    LET t == h[this].t
        old == Dict_find(h, d, t)
    IN IF old # 0
       THEN [heap |-> IF old # this THEN delete_object(h, this) ELSE h,
             tdic |-> d, ret |-> old,
             fault |-> IF h[old].dual = 0 THEN "assert(old->_dual)" ELSE "none"]
       ELSE LET d1 == d \cup {this}
                h1 == new_object(h, xdual(t))
                dual_addr == Len(h1)
                h2 == [h1 EXCEPT ![this].dual = dual_addr]
            IN IF h[this].dual # 0
               THEN [heap |-> h, tdic |-> d1, ret |-> this, fault |-> "assert(!_dual)"]
               ELSE IF equals(t, h2[dual_addr].t)
               THEN [heap |-> delete_object([h2 EXCEPT ![this].dual = this], dual_addr),
                     tdic |-> d1, ret |-> this, fault |-> "none"]
               ELSE IF Dict_find(h2, d1, h2[dual_addr].t) # 0
               THEN [heap |-> h2, tdic |-> d1, ret |-> this,
                     fault |-> "Dual not in type system either"]
               ELSE [heap |-> finish_symmetric(h2, this, dual_addr),
                     tdic |-> insert_dual(d1, dual_addr), ret |-> this,
                     fault |-> IF eq(t, xdual(h2[dual_addr].t)) THEN "none"
                               ELSE "xdual(xdual()) should be identity"]

\* The values the factories of this specification construct.
DictTypes ==
    {Type_CONTROL, Type_TOP, Type_BOTTOM,
     TypeF_make("1.0"),
     TypeInt_make("Int", 0, 1, WidenMin),
     TypeInt_xdual(TypeInt_make("Int", 0, 1, WidenMin)),
     TypeInt_make_con("Long", 0),
     TypePtr_NOTNULL, TypePtr_NULL_PTR,
     TypeRawPtr_NOTNULL,
     TypeInstPtr_NOTNULL, xdual(TypeInstPtr_NOTNULL)}

\* Type::Initialize_shared has created the empty dictionary.
Init ==
    /\ heap = <<>> /\ tdic = {} /\ last = NoCall /\ fault = "none"
    /\ VerifyIdle /\ ThreadsIdle /\ CdsIdle
    /\ recv = NULL /\ arg = NULL /\ result = NoCall
    /\ proto = NoCall /\ made = NULL /\ query = NoCall

\* A factory call, (new T(...))->hashcons(), for the value t.
Make(t) ==
    /\ fault = "none"
    /\ Len(heap) + 2 <= MaxObjs
    /\ LET h == new_object(heap, t)
           r == hashcons(h, tdic, Len(h))
       IN /\ heap' = r.heap
          /\ tdic' = r.tdic
          /\ fault' = r.fault
          /\ last' = [op |-> "hashcons", this |-> Len(h), ret |-> r.ret, before |-> tdic]
    /\ UNCHANGED <<verifyVars, threadVars, meetVars, intVars, cdsVars>>

Next == \E t \in DictTypes : Make(t)

Spec == Init /\ [][Next]_vars

(***************************************************************************)
(* Properties of the type dictionary, checked under Spec.                  *)
(***************************************************************************)
\* The entries of dictionary d that are structurally equal to the value t.
same_value(d, t) == {a \in d : heap[a].t = t}

\* C5: the table never holds two structurally-equal instances, and hashcons of
\* a candidate equal to an instance already in the table returns that
\* instance, discards the candidate and adds nothing to the table.
C5_HashconsUnique ==
    /\ \A a \in tdic : \A b \in tdic : heap[a].t = heap[b].t => a = b
    /\ (last.op = "hashcons" /\ same_value(last.before, heap[last.this].t) # {})
          => /\ last.ret \in same_value(last.before, heap[last.this].t)
             /\ last.ret # last.this
             /\ ~heap[last.this].live
             /\ tdic = last.before

\* A candidate equal to an instance of the table has been handed to hashcons,
\* which returned the older instance.
C5_Witness ==
    /\ last.op = "hashcons"
    /\ same_value(last.before, heap[last.this].t) # {}
    /\ last.ret < last.this
    /\ Cardinality(tdic) >= 3

\* C28: the table is closed under dual: every instance has an instance equal
\* to its dual in the table, so when hashcons finds no instance equal to a
\* candidate that is not self-dual, the table holds no instance equal to the
\* candidate's dual either, and the assertion "Dual not in type system
\* either" never fails.
C28_TableClosedUnderDual ==
    /\ \A a \in tdic : Dict_find(heap, tdic, xdual(heap[a].t)) # 0
    /\ fault # "Dual not in type system either"
    /\ (/\ last.op = "hashcons"
        /\ same_value(last.before, heap[last.this].t) = {}
        /\ ~equals(heap[last.this].t, xdual(heap[last.this].t)))
          => /\ same_value(last.before, xdual(heap[last.this].t)) = {}
             /\ same_value(tdic, xdual(heap[last.this].t)) # {}

\* hashcons found no instance equal to a candidate that is not self-dual, in a
\* table that already held a type and its dual, and entered the candidate
\* and its dual.
C28_Witness ==
    /\ last.op = "hashcons" /\ fault = "none"
    /\ same_value(last.before, heap[last.this].t) = {}
    /\ ~equals(heap[last.this].t, xdual(heap[last.this].t))
    /\ \E a \in last.before : heap[a].dual # a /\ heap[a].dual \in last.before
    /\ Cardinality(tdic) = Cardinality(last.before) + 2

\* C6: every canonical type has a non-null dual that is canonical too (in the
\* table, or the type itself when it is self-dual), the dual is the value
\* xdual gives, and the dual of the dual is the type.
C6_DualCanonicalAndInvolutive ==
    \A a \in tdic :
        /\ heap[a].dual # 0
        /\ heap[a].dual \in tdic
        /\ heap[heap[a].dual].live
        /\ heap[heap[a].dual].t = xdual(heap[a].t)
        /\ heap[heap[a].dual].dual = a

\* The table holds a self-dual type and a type whose dual is another object.
C6_Witness ==
    /\ \E a \in tdic : heap[a].dual = a
    /\ \E a \in tdic : heap[a].dual # a /\ heap[a].dual # 0
                       /\ heap[heap[a].dual].dual = a

(***************************************************************************)
(* The integer specification: one TypeIntPrototype, handed to make_or_top,  *)
(* and one contains query on the type it returned.                         *)
(***************************************************************************)
\* Signed bounds, unsigned bounds and bit masks the prototypes are drawn from.
SignedSeeds == {min_jint, -1, 1, max_jint}

UnsignedSeeds == {0, 1, max_jint + 1, max_juint}

BitSeeds == {0, 1, max_jint + 1}

Prototypes ==
    [lo : SignedSeeds, hi : SignedSeeds, ulo : UnsignedSeeds, uhi : UnsignedSeeds,
     zeros : BitSeeds, ones : BitSeeds]

InitInt ==
    /\ proto \in [base : {"Int", "Long"}, p : Prototypes, widen : {WidenMin},
                  dual : BOOLEAN]
    /\ made = NULL /\ query = NoCall
    /\ heap = <<>> /\ tdic = {} /\ last = NoCall /\ fault = "none"
    /\ VerifyIdle /\ ThreadsIdle /\ CdsIdle
    /\ recv = NULL /\ arg = NULL /\ result = NoCall

\* TypeInt::make_or_top(proto.p, proto.widen, proto.dual), or TypeLong's.
MakeOrTop ==
    /\ made = NULL
    /\ made' = make_or_top(proto.base, proto.p, proto.widen, proto.dual)
    /\ UNCHANGED <<verifyVars, threadVars, proto, query, dictVars, meetVars, cdsVars>>

\* made->contains(i); the assertion of contains fails on a dual type.
Contains(i) ==
    /\ made # NULL /\ made.base \in {"Int", "Long"}
    /\ query = NoCall
    /\ query' = [op |-> "contains", i |-> i, aborted |-> made.is_dual,
                 r |-> contains(made, i)]
    /\ UNCHANGED <<verifyVars, threadVars, proto, made, dictVars, meetVars, cdsVars>>

\* The types made is compared with: its own bounds under every widen counter
\* and duality, and a few other ranges.
EqOperands(t) ==
    {TypeInt_new(t.base, t, w, d) : w \in WidenMin..WidenMax, d \in BOOLEAN}
    \cup {TypeInt_make(t.base, lo, hi, w) :
              lo \in {min_jint, 0}, hi \in {0, max_jint}, w \in {WidenMin, WidenMax}}

\* made->eq(other), as Type::equals calls it on two types of the same base.
Eq ==
    /\ made # NULL /\ made.base \in {"Int", "Long"}
    /\ query = NoCall
    /\ \E other \in EqOperands(made) :
          query' = [op |-> "eq", other |-> other, r |-> TypeInt_eq(made, other)]
    /\ UNCHANGED <<verifyVars, threadVars, proto, made, dictVars, meetVars, cdsVars>>

NextInt ==
    \/ MakeOrTop
    \/ \E i \in IntValues : Contains(i)
    \/ Eq

SpecInt == InitInt /\ [][NextInt]_vars

(***************************************************************************)
(* Properties of the bounded integers, checked under SpecInt.              *)
(***************************************************************************)
\* Bit k of the value i in two's complement.
bit_of(i, k) == ((IF i < 0 THEN i + 2 ^ IntBits ELSE i) \div (2 ^ k)) % 2

\* The value i lies in the signed range, in the unsigned range, and agrees
\* with the known-zero and known-one bits of the constraints c.
in_all_views(c, i) ==
    LET u == IF i < 0 THEN i + 2 ^ IntBits ELSE i
    IN /\ c.lo <= i /\ i <= c.hi
       /\ c.ulo <= u /\ u <= c.uhi
       /\ \A k \in 0..(IntBits - 1) :
             /\ bit_of(c.zeros, k) = 1 => bit_of(i, k) = 0
             /\ bit_of(c.ones, k) = 1 => bit_of(i, k) = 1

\* C9: make_or_top on constraints whose three views have no value in common
\* returns Type::TOP for a primal and Type::BOTTOM for a dual type, and a range
\* object of the requested class only when some value satisfies all three.
C9_EmptyCollapsesToTopOrBottom ==
    made # NULL =>
        IF \E i \in IntValues : in_all_views(proto.p, i)
        THEN made.base = proto.base /\ made.is_dual = proto.dual
        ELSE made = (IF proto.dual THEN Type_BOTTOM ELSE Type_TOP)

\* A dual prototype whose signed range is positive while its unsigned range is
\* the single value 0 has gone through make_or_top.
C9_Witness ==
    /\ made = Type_BOTTOM
    /\ proto.dual /\ proto.p.lo = 1 /\ proto.p.hi = max_jint
    /\ proto.p.ulo = 0 /\ proto.p.uhi = 0

\* C10: on a primal bounded integer, contains(v) is true exactly when v lies in
\* the signed range, in the unsigned range and agrees with the known bits of
\* the type, which are the values the three views of its prototype share.
C10_ContainsAllThreeViews ==
    (query.op = "contains" /\ ~query.aborted)
        => /\ query.r <=> in_all_views(made, query.i)
           /\ query.r <=> in_all_views(proto.p, query.i)

\* contains has answered no for a value inside the signed range that the
\* unsigned range excludes, and yes for a value all three views allow.
C10_Witness ==
    /\ query.op = "contains" /\ ~query.aborted
    /\ proto.p.lo = -1 /\ proto.p.hi = 1 /\ proto.p.ulo = 0 /\ proto.p.uhi = 1
    /\ query.i = -1 /\ ~query.r


(***************************************************************************)
(* The scenarios of the integer, speculative and float meets, checked      *)
(* under SpecMeet.                                                         *)
(***************************************************************************)
\* The call in result is the meet of the byte range with the char range, in
\* either order.
byte_meets_char ==
    /\ result.op = "meet"
    /\ {recv, arg} = {TypeInt_BYTE, TypeInt_CHAR}

\* C11 as stated: the meet of the byte range int[-128,127] with the char range
\* int[0,65535] is the full int range [min_jint, max_jint].
C11_ByteMeetCharIsFullRange ==
    byte_meets_char => result.mt.lo = min_jint /\ result.mt.hi = max_jint

\* C11 amended: the meet of the byte range with the char range is the smallest
\* range holding both, from the low bound of byte to the high bound of char
\* (int[-128,65535]), with an unconstrained unsigned range and no known bits;
\* it is a proper sub-range of the full int range.
C11_ByteMeetCharIsHull ==
    byte_meets_char =>
        /\ result.mt.base = "Int" /\ ~result.mt.is_dual
        /\ result.mt.lo = TypeInt_BYTE.lo /\ result.mt.hi = TypeInt_CHAR.hi
        /\ result.mt.ulo = 0 /\ result.mt.uhi = max_juint
        /\ result.mt.zeros = 0 /\ result.mt.ones = 0
        /\ result.mt.lo > min_jint /\ result.mt.hi < max_jint
        /\ result.verify.base = "ok"

C11_Witness ==
    /\ byte_meets_char /\ recv = TypeInt_BYTE
    /\ result.mt.base = "Int" /\ result.mt.hi = TypeInt_CHAR.hi


\* The call in result is the meet of a type that carries a speculative part
\* (declared Object, profiled as an exact class) with the same type without
\* its speculative part.
guess_meets_base ==
    /\ result.op = "meet"
    /\ recv \in SpeculativeTypes
    /\ arg = remove_speculative(recv)

\* C12 as stated: the result still has a speculative part, the meet of the
\* speculative class with the other side's own type.
C12_GuessPreserved ==
    guess_meets_base /\ result.include_speculative =>
        /\ result.mt.speculative # NULL
        /\ result.mt.speculative = meet(recv.speculative, arg)

\* C12 amended: the speculative parts meet with the side that has no guess
\* contributing its own type, but that meet is the declared type itself, which
\* says nothing more than the result's non-speculative part, so TypePtr::xmeet
\* drops it: the result is the declared type with no speculative part, for
\* meet_speculative and (the speculative parts being removed first) for meet.
C12_GuessAgainstBaseIsDropped ==
    guess_meets_base =>
        /\ xmeet_speculative(recv, arg) = meet(recv.speculative, arg)
        /\ xmeet_helper(recv, arg).speculative = arg
        /\ result.mt = arg
        /\ result.mt.speculative = NULL
        /\ result.verify.base = "ok"

C12_Witness ==
    /\ guess_meets_base /\ result.include_speculative
    /\ recv.klass = "Object" /\ recv.speculative.klass_is_exact
    /\ result.mt = arg


\* The call in result is the meet of two different float constants.
float_constants_meet ==
    /\ result.op = "meet"
    /\ recv.base = "FloatCon" /\ arg.base = "FloatCon"
    /\ recv.f # arg.f

\* C13: the meet of two float constants whose bit patterns differ, +0.0 and
\* -0.0 among them, is the generic Float type and neither constant.
C13_DifferentFloatConstantsMeetAtFloat ==
    float_constants_meet =>
        /\ result.mt = Type_FLOAT
        /\ result.mt.base = "FloatBot"
        /\ result.mt # recv /\ result.mt # arg
        /\ result.verify.base = "ok"

C13_Witness ==
    /\ float_constants_meet
    /\ recv = TypeF_make("+0.0") /\ arg = TypeF_make("-0.0")
    /\ result.mt = Type_FLOAT


(***************************************************************************)
(* The interface-set specification: union_with and intersection_with on    *)
(* two canonical interface sets.  recv and arg hold the two lists.         *)
(***************************************************************************)
\* The number of interfaces the sets are drawn from; an interface is named by
\* its address.
MaxInterfaces == 4

RECURSIVE list_of(_)
\* The interfaces of S as the compiler interface hands them over, here in
\* descending address order.
list_of(S) == IF S = {} THEN <<>> ELSE <<SetMax(S)>> \o list_of(S \ {SetMax(S)})

\* Every canonical TypeInterfaces over the interfaces: what TypeInterfaces::make
\* returns for a list without duplicates.
InterfaceSets == {TypeInterfaces_make(list_of(S)) : S \in SUBSET (1..MaxInterfaces)}

InitInterfaces ==
    /\ recv \in InterfaceSets
    /\ arg \in InterfaceSets
    /\ result = NoCall
    /\ heap = <<>> /\ tdic = {} /\ last = NoCall /\ fault = "none"
    /\ VerifyIdle /\ ThreadsIdle /\ CdsIdle
    /\ proto = NoCall /\ made = NULL /\ query = NoCall

\* recv->union_with(arg), with the assertions of a debug build.
UnionWith ==
    /\ result = NoCall
    /\ result' = [op |-> "union_with", r |-> union_with(recv, arg),
                  verify |-> union_with_verify(recv, arg, union_with(recv, arg))]
    /\ UNCHANGED <<verifyVars, threadVars, recv, arg, dictVars, intVars, cdsVars>>

\* recv->intersection_with(arg), with the assertions of a debug build.
IntersectionWith ==
    /\ result = NoCall
    /\ result' = [op |-> "intersection_with", r |-> intersection_with(recv, arg),
                  verify |-> intersection_with_verify(recv, arg,
                                                      intersection_with(recv, arg))]
    /\ UNCHANGED <<verifyVars, threadVars, recv, arg, dictVars, intVars, cdsVars>>

NextInterfaces == UnionWith \/ IntersectionWith

SpecInterfaces == InitInterfaces /\ [][NextInterfaces]_vars

\* The interfaces of a list, as a set.
members(list) == {list[i] : i \in 1..Len(list)}

\* The list is strictly ascending: sorted and without duplicates.
is_canonical(list) == \A i, j \in 1..Len(list) : i < j => list[i] < list[j]

\* C14: union_with is commutative, and its result is sorted, duplicate-free
\* and holds exactly the interfaces of either set.
C14_UnionCommutativeAndCanonical ==
    result.op = "union_with" =>
        /\ result.r = union_with(arg, recv)
        /\ is_canonical(result.r)
        /\ members(result.r) = members(recv) \cup members(arg)
        /\ result.verify.base = "ok"

C14_Witness ==
    /\ result.op = "union_with"
    /\ recv = <<1, 3>> /\ arg = <<2, 3>>
    /\ result.r = <<1, 2, 3>>

\* C15: intersection_with(S, S) is S, and every member of
\* intersection_with(S1, S2) is a member of S1 and of S2.
C15_IntersectionIdempotentAndIncluded ==
    result.op = "intersection_with" =>
        /\ recv = arg => result.r = recv
        /\ members(result.r) \subseteq members(recv) \cap members(arg)
        /\ result.verify.base = "ok"

C15_Witness ==
    /\ result.op = "intersection_with"
    /\ recv = <<1, 2, 4>> /\ arg = <<2, 3, 4>>
    /\ result.r = <<2, 4>>


(***************************************************************************)
(* Equality of the bounded integers, checked under SpecInt.                *)
(***************************************************************************)
\* The two types have the same signed range, unsigned range and known bits.
same_bounds(t1, t2) ==
    /\ t1.lo = t2.lo /\ t1.hi = t2.hi
    /\ t1.ulo = t2.ulo /\ t1.uhi = t2.uhi
    /\ t1.zeros = t2.zeros /\ t1.ones = t2.ones

\* C16: two bounded integer types are equal only if the signed range, the
\* unsigned range, the known bits, the widen counter and the duality all
\* match; with the same bounds and different widen counters they are not equal.
C16_EqualNeedsBoundsWidenAndDuality ==
    query.op = "eq" =>
        /\ query.r => /\ same_bounds(made, query.other)
                      /\ made.widen = query.other.widen
                      /\ made.is_dual = query.other.is_dual
        /\ same_bounds(made, query.other) /\ made.widen # query.other.widen => ~query.r
        /\ query.r <=> made = query.other

C16_Witness ==
    /\ query.op = "eq"
    /\ same_bounds(made, query.other) /\ made.is_dual = query.other.is_dual
    /\ made.widen # query.other.widen
    /\ ~query.r


(***************************************************************************)
(* The verifier specification: the meet_helper of a debug build, stepped   *)
(* through its VerifyMeet guard, the xmeet, the cache insertions and        *)
(* lookups of check_symmetrical, and the guard's destructor.  A meet of     *)
(* types with speculative parts calls meet again from inside xmeet.        *)
(***************************************************************************)
\* new VerifyMeetResult(C): depth 0 and an empty cache.
VerifyMeetResult_new == [depth |-> 0, cache |-> {}]

\* VerifyMeet::VerifyMeet.
VerifyMeet_ctor(tv) ==
    LET raised(c) == [c EXCEPT !.depth = @ + 1]
    IN raised(IF tv = NULL THEN VerifyMeetResult_new ELSE tv)

\* Mutant of the destructor: the cache is kept when the depth returns to 0.
VerifyMeet_dtor_keeps(tv) == [tv EXCEPT !.depth = @ - 1]

\* VerifyMeet::~VerifyMeet, after its assertion.
VerifyMeet_dtor(tv) ==
    [depth |-> tv.depth - 1,
     cache |-> IF tv.depth - 1 = 0 THEN {} ELSE tv.cache]

\* Mutant of cache_find: compare looks at the first input only.
cache_find_by_first_input(cache, t1, t2) == {e \in cache : e.in1 = t1}

\* find_sorted on the cache with VerifyMeetResultEntry::compare: the entries
\* with these inputs.
cache_find(cache, t1, t2) == {e \in cache : e.in1 = t1 /\ e.in2 = t2}

\* insert_sorted on the cache: an entry with inputs not yet present is added.
cache_insert_sorted(cache, t1, t2, res) ==
    IF cache_find(cache, t1, t2) # {} THEN cache
    ELSE cache \cup {[in1 |-> t1, in2 |-> t2, res |-> res]}

\* VerifyMeetResult::add.
VerifyMeetResult_add(tv, t1, t2, res) ==
    [tv EXCEPT !.cache = cache_insert_sorted(@, t1, t2, res)]

\* The meet xmeet calls on the way (TypePtr::xmeet_speculative), as a
\* sequence of operand pairs: none, or the two speculative parts.
nested_meets(t1, t2) ==
    IF /\ t1 # t2
       /\ t1.base \in {"AnyPtr", "OopPtr", "InstPtr"}
       /\ t2.base \in {"AnyPtr", "OopPtr", "InstPtr"}
       /\ (t1.speculative # NULL \/ t2.speculative # NULL)
    THEN <<[this |-> IF t1.speculative # NULL THEN t1.speculative ELSE t1,
            t |-> IF t2.speculative # NULL THEN t2.speculative ELSE t2]>>
    ELSE <<>>


\* The inputs of the k-th verify.meet call of meet_helper: three in the first
\* check_symmetrical, the meet of the duals, three in the second.
verify_inputs(f, k) ==
    CASE k = 1 -> <<f.t, f.this_t>>
      [] k = 2 -> <<dual(f.mt), dual(f.t)>>
      [] k = 3 -> <<dual(f.mt), dual(f.this_t)>>
      [] k = 4 -> <<dual(f.this_t), dual(f.t)>>
      [] k = 5 -> <<dual(f.t), dual(f.this_t)>>
      [] k = 6 -> <<dual(f.mt_dual), dual(dual(f.t))>>
      [] k = 7 -> <<dual(f.mt_dual), dual(dual(f.this_t))>>

\* What check_symmetrical concludes once the k-th result is in: "none", or
\* the fatal error.
check_symmetrical_verdict(f, k) ==
    CASE k = 1 /\ f.res[1] # f.mt -> "meet not commutative"
      [] k = 3 /\ (f.res[2] # dual(f.t) \/ f.res[3] # dual(f.this_t)) -> "meet not symmetric"
      [] k = 5 /\ f.res[5] # f.mt_dual -> "meet not commutative"
      [] k = 7 /\ (f.res[6] # dual(dual(f.t)) \/ f.res[7] # dual(dual(f.this_t))) ->
             "meet not symmetric"
      [] OTHER -> "none"

\* The types the verified meets are called on.
VerifyOperands ==
    SpeculativeTypes
    \cup {Type_TOP, TypeF_make("+0.0"), TypeInt_BYTE, TypeInt_CHAR,
          TypeInstPtr_BOTTOM, TypeRawPtr_NOTNULL,
          TypeInstPtr_make("NotNull", "B", <<1, 2>>, TRUE, "nullptr", 0, InstanceBot,
                           NULL, InlineDepthBottom),
          TypePtr_make("AnyPtr", "NotNull", 8, NULL, InlineDepthBottom)}

top_frame == frames[Len(frames)]

set_top(f) == [frames EXCEPT ![Len(frames)] = f]

\* The entry of meet_helper: the VerifyMeet guard is constructed and the
\* speculative parts are removed as asked.
enter_meet_helper(this, t, include_speculative) ==
    /\ type_verify' = VerifyMeet_ctor(type_verify)
    /\ frames' = Append(IF frames = <<>> THEN <<>> ELSE
                            set_top([top_frame EXCEPT
                                        !.pc = IF @ = "xmeet" THEN "xmeet_resume"
                                               ELSE "check_resume"]),
                        [this_t |-> maybe_remove_speculative(this, include_speculative),
                         t |-> maybe_remove_speculative(t, include_speculative),
                         pc |-> "xmeet", mt |-> NULL, mt_dual |-> NULL, res |-> <<>>])

InitVerify ==
    /\ type_verify = NULL /\ frames = <<>>
    /\ heap = <<>> /\ tdic = {} /\ last = NoCall /\ fault = "none"
    /\ recv = NULL /\ arg = NULL /\ result = NoCall
    /\ proto = NoCall /\ made = NULL /\ query = NoCall
    /\ ThreadsIdle /\ CdsIdle

\* The compiler calls meet or meet_speculative while no meet is running.
CallMeet ==
    /\ fault = "none" /\ frames = <<>>
    /\ \E this \in VerifyOperands, t \in VerifyOperands, include_speculative \in BOOLEAN :
          enter_meet_helper(this, t, include_speculative)
    /\ UNCHANGED <<dictVars, meetVars, intVars, threadVars, cdsVars>>

\* The next verify.meet of the running meet_helper and its inputs.
next_lookup == verify_inputs(top_frame, Len(top_frame.res) + 1)

\* xmeet reaches xmeet_speculative, which calls meet on the speculative parts:
\* from the xmeet of meet_helper, or from the xmeet of a verify.meet that
\* missed the cache.
NestedMeet ==
    /\ fault = "none" /\ frames # <<>>
    /\ \/ /\ top_frame.pc = "xmeet"
          /\ nested_meets(top_frame.this_t, top_frame.t) # <<>>
          /\ enter_meet_helper(nested_meets(top_frame.this_t, top_frame.t)[1].this,
                               nested_meets(top_frame.this_t, top_frame.t)[1].t, FALSE)
       \/ /\ top_frame.pc = "check"
          /\ cache_find(type_verify.cache, next_lookup[1], next_lookup[2]) = {}
          /\ nested_meets(next_lookup[1], next_lookup[2]) # <<>>
          /\ enter_meet_helper(nested_meets(next_lookup[1], next_lookup[2])[1].this,
                               nested_meets(next_lookup[1], next_lookup[2])[1].t, FALSE)
    /\ UNCHANGED <<dictVars, meetVars, intVars, threadVars, cdsVars>>


\* const Type* mt = this_t->xmeet(t), once the meets it calls have returned.
XmeetStep ==
    /\ fault = "none" /\ frames # <<>>
    /\ \/ top_frame.pc = "xmeet" /\ nested_meets(top_frame.this_t, top_frame.t) = <<>>
       \/ top_frame.pc = "xmeet_resume"
    /\ LET finish(mt) ==
               IF is_fatal(mt)
               THEN fault' = mt.msg /\ UNCHANGED frames
               ELSE /\ frames' = set_top([top_frame EXCEPT !.mt = mt, !.pc = "add"])
                    /\ UNCHANGED fault
       IN finish(xmeet(top_frame.this_t, top_frame.t))
    /\ UNCHANGED <<type_verify, heap, tdic, last, meetVars, intVars, threadVars, cdsVars>>

\* verify.add(this_t, t, mt).
AddStep ==
    /\ fault = "none" /\ frames # <<>>
    /\ top_frame.pc = "add"
    /\ type_verify' = VerifyMeetResult_add(type_verify, top_frame.this_t, top_frame.t,
                                           top_frame.mt)
    /\ frames' = set_top([top_frame EXCEPT !.pc = "check"])
    /\ UNCHANGED <<dictVars, meetVars, intVars, threadVars, cdsVars>>

\* VerifyMeetResult::meet for the next call of check_symmetrical or of
\* meet_helper: the cached result, or the xmeet and its insertion; then the
\* comparison check_symmetrical makes with the results it has.
VerifyLookup ==
    /\ fault = "none" /\ frames # <<>>
    /\ \/ /\ top_frame.pc = "check"
          /\ \/ cache_find(type_verify.cache, next_lookup[1], next_lookup[2]) # {}
             \/ nested_meets(next_lookup[1], next_lookup[2]) = <<>>
       \/ top_frame.pc = "check_resume"
    /\ LET k == Len(top_frame.res) + 1
           found == cache_find(type_verify.cache, next_lookup[1], next_lookup[2])
           record(res) ==
               LET f == [top_frame EXCEPT !.res = Append(@, res),
                                          !.mt_dual = IF k = 4 THEN res ELSE @,
                                          !.pc = IF k = 7 THEN "exit" ELSE "check"]
               IN /\ frames' = set_top(f)
                  /\ fault' = check_symmetrical_verdict(f, k)
           compute(res) ==
               IF is_fatal(res)
               THEN fault' = res.msg /\ UNCHANGED <<frames, type_verify, cdsVars>>
               ELSE /\ type_verify' = VerifyMeetResult_add(type_verify, next_lookup[1],
                                                           next_lookup[2], res)
                    /\ record(res)
       IN IF found # {}
          THEN record((CHOOSE e \in found : TRUE).res) /\ UNCHANGED type_verify
          ELSE compute(xmeet(next_lookup[1], next_lookup[2]))
    /\ UNCHANGED <<heap, tdic, last, meetVars, intVars, threadVars, cdsVars>>

\* meet_helper returns: ~VerifyMeet lowers the depth and empties the cache
\* when it reaches 0.
ReturnStep ==
    /\ fault = "none" /\ frames # <<>>
    /\ top_frame.pc = "exit"
    /\ IF type_verify.depth = 0
       THEN fault' = "assert" /\ UNCHANGED <<type_verify, frames, cdsVars>>
       ELSE /\ type_verify' = VerifyMeet_dtor(type_verify)
            /\ frames' = SubSeq(frames, 1, Len(frames) - 1)
            /\ UNCHANGED fault
    /\ UNCHANGED <<heap, tdic, last, meetVars, intVars, threadVars, cdsVars>>

NextVerify == CallMeet \/ NestedMeet \/ XmeetStep \/ AddStep \/ VerifyLookup \/ ReturnStep

SpecVerify == InitVerify /\ [][NextVerify]_vars

\* C17: the cache holds entries only while the depth is greater than 0; the
\* depth is the number of meet_helper activations on the stack, so whenever
\* no verifying meet is running the cache is empty.
C17_CacheLiveOnlyInsideMeet ==
    type_verify # NULL =>
        /\ type_verify.depth = Len(frames)
        /\ type_verify.cache # {} => type_verify.depth > 0
        /\ frames = <<>> => type_verify.cache = {}

\* An outermost meet has returned: the verifier exists, at depth 0.
C17_Witness ==
    /\ type_verify # NULL /\ type_verify.depth = 0 /\ type_verify.cache = {}
    /\ frames = <<>> /\ fault = "none"

\* C26: the cache never changes what meet returns.  It holds at most one
\* entry per pair of inputs, the result of every entry is the xmeet of its
\* inputs, every result verify.meet has handed to a running meet_helper is
\* the xmeet of the inputs it was asked for, and the mt a meet_helper holds
\* after its xmeet, which is what it returns, is this_t->xmeet(t).
C26_CacheAgreesWithXmeet ==
    type_verify # NULL =>
        /\ \A e1, e2 \in type_verify.cache :
               (e1.in1 = e2.in1 /\ e1.in2 = e2.in2) => e1 = e2
        /\ \A e \in type_verify.cache : e.res = xmeet(e.in1, e.in2)
        /\ \A i \in 1..Len(frames) :
               /\ \A k \in 1..Len(frames[i].res) :
                      frames[i].res[k] = xmeet(verify_inputs(frames[i], k)[1],
                                               verify_inputs(frames[i], k)[2])
               /\ frames[i].pc \in {"add", "check", "check_resume", "exit"} =>
                      frames[i].mt = xmeet(frames[i].this_t, frames[i].t)

\* A meet of two different types is about to return after its seven
\* verify.meet calls, some of which were answered from the cache.
C26_Witness ==
    /\ type_verify # NULL /\ fault = "none"
    /\ Len(frames) = 1 /\ top_frame.pc = "exit"
    /\ top_frame.this_t # top_frame.t
    /\ Len(top_frame.res) = 7
    /\ Cardinality(type_verify.cache) < 8
    /\ top_frame.mt = xmeet(top_frame.this_t, top_frame.t)


(***************************************************************************)
(* The thread specification: the first compilation of the process, which   *)
(* builds the shared type dictionary, and the compilations of the worker   *)
(* threads, each with its own Compile and type dictionary.  An insertion   *)
(* into a dictionary is not atomic: it begins and ends.                    *)
(***************************************************************************)
\* Number of worker threads; thread 0 runs the first compilation.
MaxThreads == 2

\* The pre-built types Initialize_shared makes, in order, and the types a
\* compilation makes.
SharedTypes == <<Type_CONTROL, Type_TOP, TypeF_make("+0.0")>>

CompileTypes == {TypeInt_BYTE, TypeF_make("1.0")}

\* The address of the shared dictionary, as a value of type_dict().
SharedDict == [dict |-> "shared"]

\* A thread that has not started, or is between two compilations.
NoCompile == [pc |-> "unborn", type_dict |-> NULL, dict |-> {}, writing |-> NULL,
              todo |-> <<>>]

\* Mutant of Type::Initialize: the compilation keeps the shared dictionary.
Initialize_type_dict_shared(th) == SharedDict

\* Type::Initialize: the dictionary set_type_dict installs for the
\* compilation of thread th, a copy of the shared one in its own arena.
Initialize_type_dict(th) == [dict |-> "private", thread |-> th]

\* Dict::Insert of a type and of its dual, as Type::hashcons does.
Dict_Insert(types, t) == types \cup {t, dual(t)}

InitThreads ==
    /\ shared_type_dict = NULL
    /\ threads = [th \in 0..MaxThreads |-> NoCompile]
    /\ heap = <<>> /\ tdic = {} /\ last = NoCall /\ fault = "none"
    /\ recv = NULL /\ arg = NULL /\ result = NoCall
    /\ proto = NoCall /\ made = NULL /\ query = NoCall
    /\ VerifyIdle /\ CdsIdle

\* Initialize_shared has run to its end.
shared_is_built ==
    /\ shared_type_dict # NULL
    /\ \A th \in 0..MaxThreads : threads[th].pc # "shared_init"

\* A compilation starts on a thread.  Startup ordering: thread 0 compiles
\* first and alone; the workers are spawned once the shared types exist.
StartCompile(th) ==
    /\ threads[th].pc = "unborn"
    /\ th # 0 => shared_is_built
    /\ threads' = [threads EXCEPT ![th].pc = "start"]
    /\ UNCHANGED <<shared_type_dict, dictVars, meetVars, intVars, verifyVars, cdsVars>>

\* Type::Initialize(current): the first caller runs Initialize_shared, which
\* creates the shared dictionary and makes it the current one; every other
\* caller copies the shared dictionary into its own.
TypeInitialize(th) ==
    /\ threads[th].pc = "start"
    /\ IF shared_type_dict = NULL
       THEN /\ shared_type_dict' = [types |-> {}, built |-> 1]
            /\ threads' = [threads EXCEPT ![th].pc = "shared_init",
                                          ![th].type_dict = SharedDict,
                                          ![th].todo = SharedTypes]
       ELSE /\ threads' = [threads EXCEPT ![th].pc = "compiling",
                                          ![th].type_dict = Initialize_type_dict(th),
                                          ![th].dict = shared_type_dict.types]
            /\ UNCHANGED shared_type_dict
    /\ UNCHANGED <<dictVars, meetVars, intVars, verifyVars, cdsVars>>


\* Type::hashcons reaches tdic->Insert on type_dict(), the dictionary of the
\* current compilation: the insertion begins.
HashconsBegin(th, t) ==
    /\ threads[th].pc \in {"shared_init", "compiling"}
    /\ threads[th].writing = NULL
    /\ IF threads[th].pc = "shared_init"
       THEN threads[th].todo # <<>> /\ t = Head(threads[th].todo)
       ELSE t \in CompileTypes
    /\ threads' = [threads EXCEPT ![th].writing = threads[th].type_dict,
                                  ![th].todo = <<t>> \o
                                      (IF threads[th].pc = "shared_init"
                                       THEN Tail(threads[th].todo) ELSE <<>>)]
    /\ UNCHANGED <<shared_type_dict, dictVars, meetVars, intVars, verifyVars, cdsVars>>

\* The insertion ends: the type and its dual are in the dictionary.
HashconsEnd(th) ==
    /\ threads[th].writing # NULL
    /\ LET done(t, into) ==
               IF into = SharedDict
               THEN /\ shared_type_dict' =
                           [shared_type_dict EXCEPT !.types = Dict_Insert(@, t)]
                    /\ threads' = [threads EXCEPT ![th].writing = NULL,
                                                  ![th].todo = Tail(@)]
               ELSE /\ threads' = [threads EXCEPT ![th].writing = NULL,
                                                  ![th].todo = Tail(@),
                                                  ![into.thread].dict = Dict_Insert(@, t)]
                    /\ UNCHANGED shared_type_dict
       IN  done(Head(threads[th].todo), threads[th].writing)
    /\ UNCHANGED <<dictVars, meetVars, intVars, verifyVars, cdsVars>>

\* Initialize_shared returns and Type::Initialize goes on: the compilation
\* gets its own copy of the shared dictionary.
InitializeSharedReturns(th) ==
    /\ threads[th].pc = "shared_init"
    /\ threads[th].writing = NULL
    /\ threads[th].todo = <<>>
    /\ threads' = [threads EXCEPT ![th].pc = "compiling",
                                  ![th].type_dict = Initialize_type_dict(th),
                                  ![th].dict = shared_type_dict.types]
    /\ UNCHANGED <<shared_type_dict, dictVars, meetVars, intVars, verifyVars, cdsVars>>

\* The compilation ends; its arena and dictionary go away with it.
EndCompile(th) ==
    /\ threads[th].pc = "compiling"
    /\ threads[th].writing = NULL
    /\ threads' = [threads EXCEPT ![th] = NoCompile]
    /\ UNCHANGED <<shared_type_dict, dictVars, meetVars, intVars, verifyVars, cdsVars>>

NextThreads ==
    \E th \in 0..MaxThreads :
        \/ StartCompile(th)
        \/ TypeInitialize(th)
        \/ \E t \in CompileTypes \cup {SharedTypes[i] : i \in 1..Len(SharedTypes)} :
               HashconsBegin(th, t)
        \/ HashconsEnd(th)
        \/ InitializeSharedReturns(th)
        \/ EndCompile(th)

SpecThreads == InitThreads /\ [][NextThreads]_vars

\* The threads inside an insertion into the dictionary named table.
writers(table) == {th \in 0..MaxThreads : threads[th].writing = table}

\* Every type Initialize_shared makes, with its dual.
shared_types_built ==
    UNION {{SharedTypes[i], dual(SharedTypes[i])} : i \in 1..Len(SharedTypes)}

\* C18: no two threads are ever inside an insertion into the same
\* dictionary: the shared dictionary is built once, by the first
\* compilation while no other compilation runs, and is complete and
\* untouched while any later compilation runs; a compilation past
\* Type::Initialize inserts only into its own dictionary.
C18_NoTwoThreadsMutateOneTable ==
    /\ \A table \in {SharedDict} \cup {Initialize_type_dict(th) : th \in 0..MaxThreads} :
            Cardinality(writers(table)) <= 1
    /\ \A th \in 0..MaxThreads :
           /\ threads[th].writing = SharedDict =>
                  /\ threads[th].pc = "shared_init"
                  /\ \A other \in (0..MaxThreads) \ {th} : threads[other].pc = "unborn"
           /\ threads[th].pc = "compiling" =>
                  /\ threads[th].writing \in {NULL, [dict |-> "private", thread |-> th]}
                  /\ shared_type_dict # NULL
                  /\ shared_type_dict.types = shared_types_built
                  /\ shared_type_dict.built = 1

\* Two compilations are inside insertions at once, each into its own
\* dictionary, after the shared dictionary was built.
C18_Witness ==
    /\ shared_type_dict # NULL
    /\ shared_type_dict.types = shared_types_built
    /\ \E a, b \in 0..MaxThreads :
           /\ a # b
           /\ threads[a].writing = [dict |-> "private", thread |-> a]
           /\ threads[b].writing = [dict |-> "private", thread |-> b]


(***************************************************************************)
(* TypeInt::make(lo, hi, widen) and TypeLong::make(lo, hi, widen) on every *)
(* pair of bounds, in a build with assertions and in one without.          *)
(***************************************************************************)
InitMake ==
    /\ proto \in [base : {"Int", "Long"}, lo : IntValues, hi : IntValues,
                  widen : {WidenMin, WidenMax}]
    /\ made = NULL /\ query = NoCall
    /\ heap = <<>> /\ tdic = {} /\ last = NoCall /\ fault = "none"
    /\ VerifyIdle /\ ThreadsIdle /\ CdsIdle
    /\ recv = NULL /\ arg = NULL /\ result = NoCall

\* make(proto.lo, proto.hi, proto.widen).  A build without assertions
\* compiles the assert of make and the one of is_int() away and hands
\* the result of make_or_top on.
MakeRange(assertions) ==
    /\ query = NoCall
    /\ query' = [op |-> "make", assertions |-> assertions]
    /\ made' = IF assertions
               THEN TypeInt_make(proto.base, proto.lo, proto.hi, proto.widen)
               ELSE make_or_top(proto.base,
                                [lo |-> proto.lo, hi |-> proto.hi, ulo |-> 0,
                                 uhi |-> max_juint, zeros |-> 0, ones |-> 0],
                                proto.widen, FALSE)
    /\ UNCHANGED <<verifyVars, threadVars, proto, dictVars, meetVars, cdsVars>>

NextMake == \E assertions \in BOOLEAN : MakeRange(assertions)

SpecMake == InitMake /\ [][NextMake]_vars

\* make was called with lo > hi.
made_with_illegal_bounds == query # NoCall /\ query.op = "make" /\ proto.lo > proto.hi

\* C19 as stated: make(lo, hi, widen) with lo > hi returns Top, with no
\* assertion failure and no abort.
C19_IllegalBoundsGiveTop ==
    made_with_illegal_bounds => made = Type_TOP

\* C19, amended: make(lo, hi, widen) with lo > hi fails the assertion "must
\* be legal bounds" where assertions are compiled in and returns Top only
\* where they are not; with lo <= hi it returns the primal type of the
\* signed range [lo, hi], never Top.
C19_IllegalBoundsFailAssertion ==
    (query # NoCall /\ query.op = "make") =>
        IF proto.lo > proto.hi
        THEN IF query.assertions
             THEN made = fatal("must be legal bounds")
             ELSE made = Type_TOP
        ELSE /\ made.base = proto.base
             /\ made.lo = proto.lo /\ made.hi = proto.hi
             /\ ~made.is_dual

\* make was called with lo > hi in a build with assertions and aborted.
C19_Witness ==
    /\ made_with_illegal_bounds
    /\ query.assertions
    /\ is_fatal(made)


\* recv and arg are two different constants of one pointer family: raw
\* pointers to different addresses, or different constant oops.
different_constants ==
    /\ recv.base = arg.base
    /\ recv.base \in {"RawPtr", "InstPtr"}
    /\ recv.ptr = "Constant" /\ arg.ptr = "Constant"
    /\ IF recv.base = "RawPtr" THEN recv.bits # arg.bits
       ELSE recv.const_oop # arg.const_oop

\* C20: the meet of two pointer types of one family that are both Constant
\* but denote different constants (different raw addresses, or different
\* constant oops, of the same class or not) is a pointer of that family with
\* nullability NotNull that carries no constant.
C20_DifferentConstantsMeetAtNotNull ==
    (result.op = "meet" /\ different_constants) =>
        /\ result.mt.base = recv.base
        /\ result.mt.ptr = "NotNull"
        /\ result.mt.base = "RawPtr" => result.mt.bits = 0
        /\ result.mt.base = "InstPtr" => result.mt.const_oop = "nullptr"
        /\ result.verify.base = "ok"

\* Two different constant oops of the same class have met.
C20_Witness ==
    /\ result.op = "meet"
    /\ different_constants
    /\ recv.base = "InstPtr"
    /\ recv.klass = arg.klass
    /\ result.mt.ptr = "NotNull"


(***************************************************************************)
(* The array specification: one call of meet, dual or filter on pointers   *)
(* to arrays of primitives.                                                *)
(***************************************************************************)
\* TypeInt::POS, the size of an array of unknown length.
TypeInt_POS == TypeInt_make("Int", 0, max_jint, WidenMin)

\* The primitive array klasses of the model and their element types.
ArrayKlasses == {"byte[]", "char[]", "float[]"}

array_element(k) ==
    CASE k = "byte[]" -> TypeInt_BYTE
      [] k = "char[]" -> TypeInt_CHAR
      [] k = "float[]" -> Type_FLOAT

\* TypeAryPtr::make for every klass, nullability and requested exactness;
\* a Constant carries the one constant array of its klass.  The factories
\* make pointers on or below the centerline; the ones above it are the duals
\* hashcons creates with them.
PrimitiveArrayTypes ==
    {TypeAryPtr_make(p, IF p = "Constant" THEN k ELSE "nullptr",
                     TypeAry_make(array_element(k), TypeInt_POS, FALSE), k, xk, 0,
                     InstanceBot, NULL, InlineDepthBottom) :
        p \in {"Constant", "NotNull", "BotPTR"},
        k \in ArrayKlasses, xk \in BOOLEAN}

\* Arrays of unknown element type, as TypeAryPtr::BOTTOM.
BottomArrayTypes ==
    {TypeAryPtr_make(p, "nullptr", TypeAry_make(Type_BOTTOM, TypeInt_POS, FALSE),
                     "nullptr", FALSE, 0, InstanceBot, NULL, InlineDepthBottom) :
        p \in {"NotNull", "BotPTR"}}

ArrayTypes ==
    LET seeds == PrimitiveArrayTypes \cup BottomArrayTypes
    IN seeds \cup {xdual(t) : t \in seeds}

InitArrays ==
    /\ recv \in ArrayTypes
    /\ arg \in ArrayTypes
    /\ result = NoCall
    /\ heap = <<>> /\ tdic = {} /\ last = NoCall /\ fault = "none"
    /\ VerifyIdle /\ ThreadsIdle /\ CdsIdle
    /\ proto = NoCall /\ made = NULL /\ query = NoCall

SpecArrays == InitArrays /\ [][NextMeet]_vars

\* recv and arg are pointers to arrays of two different primitive array
\* klasses.
mismatched_primitive_arrays ==
    /\ recv.base = "AryPtr" /\ arg.base = "AryPtr"
    /\ TypeAryPtr_klass(recv) \in ArrayKlasses
    /\ TypeAryPtr_klass(arg) \in ArrayKlasses
    /\ TypeAryPtr_klass(recv) # TypeAryPtr_klass(arg)

UnloadedKlasses == {"U", "V"}

\* TypeInstPtr::make for loaded and unloaded classes, and a constant of A,
\* with the duals hashcons creates with them.
UnloadedTypes ==
    LET seeds == {TypeInstPtr_make(p, k, transitive_interfaces(k), xk, "nullptr", 0,
                                   InstanceBot, NULL, InlineDepthBottom) :
                     p \in {"NotNull", "BotPTR"},
                     k \in {"Object", "A", "C"} \cup UnloadedKlasses, xk \in BOOLEAN}
                 \cup {TypeInstPtr_make("Constant", "A", <<1>>, TRUE, "oop1", 0,
                                        InstanceBot, NULL, InlineDepthBottom)}
    IN seeds \cup {xdual(t) : t \in seeds}

InitUnloaded ==
    /\ recv \in UnloadedTypes
    /\ arg \in UnloadedTypes
    /\ result = NoCall
    /\ heap = <<>> /\ tdic = {} /\ last = NoCall /\ fault = "none"
    /\ VerifyIdle /\ ThreadsIdle /\ CdsIdle
    /\ proto = NoCall /\ made = NULL /\ query = NoCall

SpecUnloaded == InitUnloaded /\ [][NextMeet]_vars

\* recv and arg are instance pointers of two different classes, at least one
\* of them unloaded, and the loaded one, if any, is not java/lang/Object.
different_klasses_one_unloaded ==
    /\ recv.base = "InstPtr" /\ arg.base = "InstPtr"
    /\ recv.klass # arg.klass
    /\ ~is_loaded(recv) \/ ~is_loaded(arg)
    /\ is_loaded(recv) => recv.klass # "Object"
    /\ is_loaded(arg) => arg.klass # "Object"

\* C22: the meet of two instance pointers of different classes, one of them
\* at least unloaded and the loaded one not Object, keeps neither class: it
\* is Object:NotNull when the met nullability is not BotPTR and
\* Object:BotPTR when it is.
C22_UnloadedMeetFallsToObject ==
    (result.op = "meet" /\ different_klasses_one_unloaded /\ ~is_fatal(result.mt)) =>
        /\ result.mt.base = "InstPtr"
        /\ result.mt.klass = "Object"
        /\ ~result.mt.klass_is_exact
        /\ result.mt.ptr = IF meet_ptr(recv.ptr, arg.ptr) # "BotPTR" THEN "NotNull"
                           ELSE "BotPTR"

\* The two unloaded classes U and V have met below BotPTR, at Object:NotNull.
C22_Witness ==
    /\ result.op = "meet" /\ different_klasses_one_unloaded /\ ~is_fatal(result.mt)
    /\ ~is_loaded(recv) /\ ~is_loaded(arg)
    /\ meet_ptr(recv.ptr, arg.ptr) = "NotNull"
    /\ result.mt.klass = "Object" /\ result.mt.ptr = "NotNull"


\* What TypePtr::xmeet gets from xmeet_helper for the call in result.
helper_result ==
    xmeet_helper(maybe_remove_speculative(recv, result.include_speculative),
                 maybe_remove_speculative(arg, result.include_speculative))

\* xmeet_helper returned a pointer whose speculative part is that pointer
\* without its speculative part.
helper_result_is_redundant ==
    /\ result.op = "meet"
    /\ recv.base \in {"AnyPtr", "OopPtr", "InstPtr", "AryPtr"}
    /\ ~is_fatal(helper_result) /\ isa_ptr(helper_result)
    /\ helper_result.speculative # NULL
    /\ remove_speculative(helper_result) = helper_result.speculative

\* C23: no pointer returned by TypePtr::xmeet has a speculative part equal
\* to its own non-speculative part; when the met speculative type is the
\* result without its speculative part, the result has no speculative part.
C23_NoRedundantSpeculative ==
    /\ (result.op = "meet" /\ recv.base \in {"AnyPtr", "OopPtr", "InstPtr", "AryPtr"}
        /\ ~is_fatal(result.mt) /\ isa_ptr(result.mt)) =>
           result.mt.speculative # remove_speculative(result.mt)
    /\ helper_result_is_redundant =>
           /\ result.mt = remove_speculative(helper_result)
           /\ result.mt.speculative = NULL

\* Two different types, neither the other without its speculative part, met
\* at a type whose speculative part said nothing more, and lost it.
C23_Witness ==
    /\ helper_result_is_redundant
    /\ arg # remove_speculative(recv) /\ recv # remove_speculative(arg)
    /\ result.mt.speculative = NULL
    /\ result.mt = helper_result.speculative


(***************************************************************************)
(* The nullability specification: meet_ptr and dual_ptr on the PTR enum.   *)
(* recv is the receiver's _ptr, arg the in_ptr, query a third PTR.         *)
(***************************************************************************)
PtrKinds == {PTR[i] : i \in 1..Len(PTR)}

InitPtr ==
    /\ recv \in PtrKinds
    /\ arg \in PtrKinds
    /\ query \in PtrKinds
    /\ result = NoCall
    /\ heap = <<>> /\ tdic = {} /\ last = NoCall /\ fault = "none"
    /\ VerifyIdle /\ ThreadsIdle /\ CdsIdle
    /\ proto = NoCall /\ made = NULL

\* meet_ptr(arg) of a pointer whose _ptr is recv.
MeetPtr ==
    /\ result = NoCall
    /\ result' = [op |-> "meet_ptr", ptr |-> meet_ptr(recv, arg)]
    /\ UNCHANGED <<verifyVars, threadVars, recv, arg, dictVars, intVars, cdsVars>>

\* dual_ptr() of a pointer whose _ptr is recv.
DualPtr ==
    /\ result = NoCall
    /\ result' = [op |-> "dual_ptr", ptr |-> dual_ptr(recv)]
    /\ UNCHANGED <<verifyVars, threadVars, recv, arg, dictVars, intVars, cdsVars>>

NextPtr == MeetPtr \/ DualPtr

SpecPtr == InitPtr /\ [][NextPtr]_vars

\* ptr_meet[a][b] and ptr_dual[a], indexed by PTR values.
ptr_meet_at(a, b) == ptr_meet[ptr_index(a)][ptr_index(b)]

ptr_dual_at(a) == ptr_dual[ptr_index(a)]

\* C24: ptr_meet is commutative, associative and idempotent, TopPTR is its
\* identity and BotPTR is absorbing.
C24_PtrMeetIsSemilattice ==
    result.op = "meet_ptr" =>
        /\ result.ptr = ptr_meet_at(arg, recv)
        /\ ptr_meet_at(arg, recv) = ptr_meet_at(recv, arg)
        /\ ptr_meet_at(result.ptr, query) = ptr_meet_at(arg, ptr_meet_at(recv, query))
        /\ recv = arg => result.ptr = recv
        /\ arg = "TopPTR" => result.ptr = recv
        /\ recv = "TopPTR" => result.ptr = arg
        /\ (arg = "BotPTR" \/ recv = "BotPTR") => result.ptr = "BotPTR"

\* AnyNull has met Null at BotPTR, and BotPTR absorbs the third kind.
C24_Witness ==
    /\ result.op = "meet_ptr"
    /\ recv = "AnyNull" /\ arg = "Null" /\ query = "Constant"
    /\ result.ptr = "BotPTR"
    /\ ptr_meet_at(result.ptr, query) = "BotPTR"

\* C25: ptr_dual is an involution, and it is symmetric with ptr_meet: for
\* a = arg and b = recv, ptr_dual[ptr_dual[a]] = a and
\* ptr_meet[ptr_dual[ptr_meet[a][b]]][ptr_dual[a]] = ptr_dual[a].
C25_PtrDualIsSymmetricInvolution ==
    /\ result.op = "dual_ptr" =>
           /\ result.ptr = ptr_dual_at(recv)
           /\ ptr_dual_at(result.ptr) = recv
    /\ result.op = "meet_ptr" =>
           /\ ptr_dual_at(ptr_dual_at(arg)) = arg
           /\ ptr_meet_at(ptr_dual_at(result.ptr), ptr_dual_at(arg)) = ptr_dual_at(arg)
           /\ ptr_meet_at(ptr_dual_at(result.ptr), ptr_dual_at(recv)) = ptr_dual_at(recv)

\* A constant has met NotNull: the dual of the result, AnyNull, meets the
\* dual of the constant at that dual.
C25_Witness ==
    /\ result.op = "meet_ptr"
    /\ arg = "Constant" /\ recv = "NotNull"
    /\ result.ptr = "NotNull"
    /\ ptr_dual_at(result.ptr) = "AnyNull"
    /\ ptr_meet_at("AnyNull", ptr_dual_at(arg)) = "Constant"


(***************************************************************************)
(* Type::hash and its overrides.  A uint has 32 bits and is held as the    *)
(* jint with the same bits, so that (uint) of a jint changes nothing and   *)
(* additions wrap around.  The hashes of the compiler interface objects    *)
(* (ciObject::hash, ciMetadata::hash) are ident numbers times 31.          *)
(***************************************************************************)
\* The high and the low 16 bits of a 32-bit word.
high_half(x) == x \div 65536
low_half(x) == x % 65536

\* The 16-bit high half of a sum, wrapped around.
wrap_half(h) == ((h + 32768) % 65536) - 32768

\* a + b on uint.
uint_add(a, b) ==
    (wrap_half(high_half(a) + high_half(b) + ((low_half(a) + low_half(b)) \div 65536))
        * 65536)
    + ((low_half(a) + low_half(b)) % 65536)

RECURSIVE uint_sum(_)
\* The sum of a list of uint.
uint_sum(xs) == IF xs = <<>> THEN 0 ELSE uint_add(Head(xs), uint_sum(Tail(xs)))

\* enum TYPES, in declaration order.
TYPES ==
    <<"Bad", "Control", "Top", "Int", "Long", "Half", "NarrowOop", "NarrowKlass",
      "Tuple", "Array", "Interfaces", "VectorMask", "VectorA", "VectorS", "VectorD",
      "VectorX", "VectorY", "VectorZ", "AnyPtr", "RawPtr", "OopPtr", "InstPtr",
      "AryPtr", "MetadataPtr", "KlassPtr", "InstKlassPtr", "AryKlassPtr", "Function",
      "Abio", "Return_Address", "Memory", "HalfFloatTop", "HalfFloatCon",
      "HalfFloatBot", "FloatTop", "FloatCon", "FloatBot", "DoubleTop", "DoubleCon",
      "DoubleBot", "Bottom">>

\* The value of a TYPES enumerator.
type_value(b) == (CHOOSE i \in 1..Len(TYPES) : TYPES[i] = b) - 1

\* ciBaseObject::ident of an interface.
interface_ident(i) == 10 + i

\* ciBaseObject::ident of a class or a constant oop.
ci_ident(x) ==
    CASE x = "Object" -> 1
      [] x = "A" -> 2
      [] x = "B" -> 3
      [] x = "C" -> 4
      [] x = "D" -> 5
      [] x = "U" -> 6
      [] x = "V" -> 7
      [] x = "oop1" -> 21
      [] x = "oop2" -> 22
      [] x = "oop3" -> 23

\* ciObject::hash, ciMetadata::hash.
ci_hash(ident) == ident * 31

\* Type::hash.
Type_hash(this) == type_value(this.base)

\* TypeF::hash: the bits of the float.
TypeF_hash(this) == jint_cast(this.f)

\* TypeD::hash: the first word of the double in memory, which is the low word
\* of its bit pattern: 0 for each double of the model.
TypeD_hash(this) == CASE this.d \in FloatValues -> 0

\* TypeInt::hash, TypeLong::hash.
TypeInt_hash(this) ==
    uint_sum(<<this.lo, this.hi, this.ulo, this.uhi, this.zeros, this.ones,
               this.widen, IF this.is_dual THEN 1 ELSE 0, type_value(this.base)>>)

RECURSIVE hash(_)

\* TypePtr::hash_speculative.
hash_speculative(this) ==
    IF this.speculative = NULL THEN 0 ELSE hash(this.speculative)

\* TypePtr::hash.
TypePtr_hash(this) ==
    uint_sum(<<ptr_index(this.ptr) - 1, this.offset, hash_speculative(this),
               this.inline_depth>>)

\* TypeRawPtr::hash.
TypeRawPtr_hash(this) == uint_add(this.bits, TypePtr_hash(this))

\* TypeOopPtr::hash.
TypeOopPtr_hash(this) ==
    uint_sum(<<IF this.const_oop # "nullptr" THEN ci_hash(ci_ident(this.const_oop)) ELSE 0,
               IF this.klass_is_exact THEN 1 ELSE 0,
               this.instance_id, TypePtr_hash(this)>>)

RECURSIVE compute_hash(_)
\* TypeInterfaces::compute_hash, which TypeInterfaces::hash returns.
compute_hash(interfaces) ==
    IF interfaces = <<>> THEN 0
    ELSE uint_add(ci_hash(interface_ident(Head(interfaces))), compute_hash(Tail(interfaces)))

\* TypeInstPtr::hash.
TypeInstPtr_hash(this) ==
    uint_sum(<<ci_hash(ci_ident(this.klass)), TypeOopPtr_hash(this),
               compute_hash(this.interfaces)>>)

\* hash (virtual).
hash(this) ==
    CASE this.base \in PlainBases -> Type_hash(this)
      [] this.base = "FloatCon" -> TypeF_hash(this)
      [] this.base = "DoubleCon" -> TypeD_hash(this)
      [] this.base \in {"Int", "Long"} -> TypeInt_hash(this)
      [] this.base = "AnyPtr" -> TypePtr_hash(this)
      [] this.base = "RawPtr" -> TypeRawPtr_hash(this)
      [] this.base = "OopPtr" -> TypeOopPtr_hash(this)
      [] this.base = "InstPtr" -> TypeInstPtr_hash(this)

(***************************************************************************)
(* The hash specification: hash and eq on two types, as the dictionary     *)
(* calls them when it looks a type up.                                     *)
(***************************************************************************)
\* The types of the meet specification, and ranges that differ in their
\* widen only.
HashTypes ==
    Types \cup {TypeInt_make(b, 0, max_jint, w) : b \in {"Int", "Long"},
                                                    w \in WidenMin..WidenMax}

InitHash ==
    /\ recv \in HashTypes
    /\ arg \in HashTypes
    /\ result = NoCall
    /\ heap = <<>> /\ tdic = {} /\ last = NoCall /\ fault = "none"
    /\ VerifyIdle /\ ThreadsIdle /\ CdsIdle
    /\ proto = NoCall /\ made = NULL /\ query = NoCall

\* recv->hash(), arg->hash() and Type::equals(recv, arg).
Hash ==
    /\ result = NoCall
    /\ result' = [op |-> "hash", this_hash |-> hash(recv), t_hash |-> hash(arg),
                  equals |-> equals(recv, arg)]
    /\ UNCHANGED <<verifyVars, threadVars, recv, arg, dictVars, intVars, cdsVars>>

NextHash == Hash

SpecHash == InitHash /\ [][NextHash]_vars

\* C27: two types with the same tag for which eq returns true have the same
\* hash.
C27_HashConsistentWithEq ==
    (result.op = "hash" /\ recv.base = arg.base /\ eq(recv, arg)) =>
        result.this_hash = result.t_hash

\* An instance pointer with a speculative part was hashed and compared with
\* an equal one.
C27_Witness ==
    /\ result.op = "hash" /\ result.equals
    /\ recv.base = "InstPtr" /\ recv.speculative # NULL
    /\ result.this_hash = result.t_hash
    /\ result.this_hash = TypeInstPtr_hash(arg)


(***************************************************************************)
(* The instance specification: meets of instance pointers that know their  *)
(* instance.  An instance_id above 0 names one allocation, and             *)
(* TypeInstPtr::make accepts it with an exact klass only.                  *)
(***************************************************************************)
\* The instance_id of the allocation the pointers of this specification know.
InstanceId == 5

\* Instance pointers as TypeInstPtr::make builds them: of the loaded classes
\* Object, A and B, inexact, exact, or exact with a known instance, and of
\* the unloaded class U; and the duals hashcons computes for them.
InstanceTypes ==
    LET seeds == {TypeInstPtr_make(p, k, transitive_interfaces(k), xi[1], "nullptr", 0,
                                   xi[2], NULL, InlineDepthBottom) :
                     p \in {"NotNull", "BotPTR"},
                     k \in {"Object", "A", "B"},
                     xi \in {<<FALSE, InstanceBot>>, <<TRUE, InstanceBot>>,
                             <<TRUE, InstanceId>>}}
                 \cup {TypeInstPtr_make(p, "U", transitive_interfaces("U"), xk, "nullptr",
                                        0, InstanceBot, NULL, InlineDepthBottom) :
                     p \in {"NotNull", "BotPTR"}, xk \in BOOLEAN}
    IN seeds \cup {xdual(t) : t \in seeds}

InitInstances ==
    /\ recv \in InstanceTypes
    /\ arg \in InstanceTypes
    /\ result = NoCall
    /\ heap = <<>> /\ tdic = {} /\ last = NoCall /\ fault = "none"
    /\ VerifyIdle /\ ThreadsIdle /\ CdsIdle
    /\ proto = NoCall /\ made = NULL /\ query = NoCall

SpecInstances == InitInstances /\ [][NextMeet]_vars

\* t is an instance pointer that names no instance or has an exact klass.
instance_is_exactly_typed(t) ==
    t.base = "InstPtr" /\ (t.instance_id <= 0 \/ t.klass_is_exact)

\* C29: the meet of two instance pointers, each with instance_id <= 0 or an
\* exact klass, never asks TypeInstPtr::make for an instance_id above 0 with
\* a klass that is not exact: the assertion "instances are always exactly
\* typed" holds, on the path of unloaded classes too.
C29_InstancesAlwaysExactlyTyped ==
    (/\ result.op = "meet"
     /\ instance_is_exactly_typed(recv) /\ instance_is_exactly_typed(arg))
        => ~(is_fatal(result.mt)
             /\ result.mt.msg = "instances are always exactly typed")


(***************************************************************************)
(* CDSProtectionDomain: the cache of the protection domains of the shared  *)
(* paths.  Java threads that load shared classes call                      *)
(* get_shared_protection_domain with no lock held; the cache is an object  *)
(* array with one slot per shared path.                                    *)
(***************************************************************************)
\* Number of shared paths, the size allocate_shared_protection_domain_array
\* is called with.
MaxPaths == 2

\* The Java threads that load shared classes.
JavaThreads == 0..MaxThreads

\* A null oop, and the ProtectionDomain the upcall of thread th creates.
NullOop == [oop |-> "nullptr"]

\* get_protection_domain_from_classloader: SecureClassLoader.getProtectionDomain
\* hands the calling thread an object.
get_protection_domain_from_classloader(th, index) ==
    [oop |-> "ProtectionDomain", by |-> th, index |-> index]

\* Mutant of replace_if_null: the slot is written whatever it holds.
replace_always(array, index, o) == [array EXCEPT ![index] = o]

\* objArrayOopDesc::replace_if_null(index, o): one atomic compare-and-exchange
\* of the slot against null.
replace_if_null(array, index, o) ==
    IF array[index] = NullOop THEN [array EXCEPT ![index] = o] ELSE array

\* CDSProtectionDomain::atomic_set_array_index.
atomic_set_array_index(array, index, o) == replace_if_null(array, index, o)

\* CDSProtectionDomain::shared_protection_domain(index).
shared_protection_domain(index) == shared_protection_domains[index]

\* A thread outside get_shared_protection_domain.
NoCaller == [pc |-> "idle", index |-> 0, pd |-> NullOop, ret |-> NullOop]

\* allocate_shared_protection_domain_array has run: every slot is null.
InitCds ==
    /\ shared_protection_domains = [i \in 1..MaxPaths |-> NullOop]
    /\ callers = [th \in JavaThreads |-> NoCaller]
    /\ heap = <<>> /\ tdic = {} /\ last = NoCall /\ fault = "none"
    /\ recv = NULL /\ arg = NULL /\ result = NoCall
    /\ proto = NoCall /\ made = NULL /\ query = NoCall
    /\ VerifyIdle /\ ThreadsIdle

\* Thread th calls get_shared_protection_domain(class_loader, index, url).
Call(th, index) ==
    /\ callers[th].pc = "idle"
    /\ callers' = [callers EXCEPT ![th] = [NoCaller EXCEPT !.pc = "check",
                                                        !.index = index]]
    /\ UNCHANGED <<shared_protection_domains, dictVars, meetVars, intVars,
                   verifyVars, threadVars>>

\* "if (shared_protection_domain(shared_path_index) == nullptr)".
CheckSlot(th) ==
    /\ callers[th].pc = "check"
    /\ callers' = [callers EXCEPT ![th].pc =
                      IF shared_protection_domain(callers[th].index) = NullOop
                      THEN "upcall" ELSE "acquire"]
    /\ UNCHANGED <<shared_protection_domains, dictVars, meetVars, intVars,
                   verifyVars, threadVars>>

\* "Handle pd = get_protection_domain_from_classloader(class_loader, url,
\* CHECK_NH)": the upcall returns a protection domain, or throws and the call
\* returns the null handle.
Upcall(th) ==
    /\ callers[th].pc = "upcall"
    /\ \E throws \in BOOLEAN :
          callers' = [callers EXCEPT ![th] =
                         IF throws THEN [@ EXCEPT !.pc = "exception"]
                         ELSE [@ EXCEPT !.pc = "set",
                                        !.pd = get_protection_domain_from_classloader(
                                                   th, callers[th].index)]]
    /\ UNCHANGED <<shared_protection_domains, dictVars, meetVars, intVars,
                   verifyVars, threadVars>>

\* "atomic_set_shared_protection_domain(shared_path_index, pd())".
AtomicSet(th) ==
    /\ callers[th].pc = "set"
    /\ shared_protection_domains' =
           atomic_set_array_index(shared_protection_domains, callers[th].index,
                                  callers[th].pd)
    /\ callers' = [callers EXCEPT ![th].pc = "acquire"]
    /\ UNCHANGED <<dictVars, meetVars, intVars, verifyVars, threadVars>>

\* "protection_domain = Handle(THREAD, shared_protection_domain(index));
\* assert(protection_domain.not_null(), "sanity"); return protection_domain".
Acquire(th) ==
    /\ callers[th].pc = "acquire"
    /\ callers' = [callers EXCEPT ![th] =
                      IF shared_protection_domain(callers[th].index) = NullOop
                      THEN [@ EXCEPT !.pc = "sanity"]
                      ELSE [@ EXCEPT !.pc = "returned",
                                     !.ret = shared_protection_domain(callers[th].index)]]
    /\ UNCHANGED <<shared_protection_domains, dictVars, meetVars, intVars,
                   verifyVars, threadVars>>

\* The caller has its answer and goes on; it may call again.
Return(th) ==
    /\ callers[th].pc \in {"returned", "exception"}
    /\ callers' = [callers EXCEPT ![th] = NoCaller]
    /\ UNCHANGED <<shared_protection_domains, dictVars, meetVars, intVars,
                   verifyVars, threadVars>>

NextCds ==
    \E th \in JavaThreads :
        \/ \E index \in 1..MaxPaths : Call(th, index)
        \/ CheckSlot(th)
        \/ Upcall(th)
        \/ AtomicSet(th)
        \/ Acquire(th)
        \/ Return(th)

SpecCds == InitCds /\ [][NextCds]_vars

\* The threads whose call for the shared path index has returned a
\* protection domain.
returned_for(index) ==
    {th \in JavaThreads : callers[th].pc = "returned" /\ callers[th].index = index}

\* C30: for one shared path index every call of get_shared_protection_domain
\* that returns, on any thread and in any interleaving, returns the same
\* protection domain: it is the value of the cache slot, which is written at
\* most once, by the first replace_if_null, whatever candidate the caller
\* computed itself.
C30_AllCallersGetTheSameDomain ==
    /\ \A index \in 1..MaxPaths :
          \A th \in returned_for(index) :
              /\ callers[th].ret # NullOop
              /\ callers[th].ret = shared_protection_domain(index)
              /\ \A other \in returned_for(index) : callers[other].ret = callers[th].ret
    /\ \A th \in JavaThreads : callers[th].pc # "sanity"

\* Two threads raced for one slot: both computed a candidate, and the one
\* that lost returned the winner's protection domain, not its own.
C30_Witness ==
    \E index \in 1..MaxPaths :
        \E th \in returned_for(index) :
            \E other \in returned_for(index) :
                /\ th # other
                /\ callers[th].pd # NullOop /\ callers[other].pd # NullOop
                /\ callers[th].pd # callers[other].pd
                /\ callers[th].ret = callers[other].pd
                /\ callers[other].ret = callers[other].pd

====
